---- MODULE Spec2Model ----
(***************************************************************************)
(* A model of the mintme token library: the parameter validators, the IDL  *)
(* loader, and the four public operations createToken, createTokenSimple,  *)
(* revokeAuthority and revokeAuthoritySimple, each followed through its    *)
(* promise chain one callback at a time.                                   *)
(*                                                                         *)
(* JavaScript values are records [t, s, n, f]: t is the typeof tag, s the  *)
(* characters of a string (or the class name of an object), n the integer  *)
(* part of a number (or 0/1 for a boolean) and f tells a number with a     *)
(* fractional part.  Strings are sequences of one-character strings so     *)
(* that the regular expressions of the validators can be evaluated.        *)
(***************************************************************************)
EXTENDS Integers, Sequences, FiniteSets, TLC

\* ------------------------------------------------------------------------
\* Bounds of the model
\* ------------------------------------------------------------------------

\* the small lamports amounts converted range over 0..MaxLamports
MaxLamports == 100

\* numeric initial supplies range over 0..MaxSupply
MaxSupply == 2

\* ------------------------------------------------------------------------
\* JavaScript values
\* ------------------------------------------------------------------------

Undef == [t |-> "undefined", s |-> <<>>, n |-> 0, f |-> FALSE]

Str(chars) == [t |-> "string", s |-> chars, n |-> 0, f |-> FALSE]

Num(k) == [t |-> "number", s |-> <<>>, n |-> k, f |-> FALSE]

\* the number k + 1/2
Frac(k) == [t |-> "number", s |-> <<>>, n |-> k, f |-> TRUE]

\* NaN; as every number it has a place for an integer part, which is not read
NaN == [t |-> "number", s |-> <<"NaN">>, n |-> 0, f |-> FALSE]

\* Infinity; n is its sign
Infinity == [t |-> "number", s |-> <<"Infinity">>, n |-> 1, f |-> FALSE]

Bool(b) == [t |-> "boolean", s |-> <<>>, n |-> IF b THEN 1 ELSE 0, f |-> FALSE]

Obj(class) == [t |-> "object", s |-> <<class>>, n |-> 0, f |-> FALSE]

\* a PublicKey object; id tells one address from another
PubKey(id) == [t |-> "object", s |-> <<"PublicKey">> \o id, n |-> 0, f |-> FALSE]

\* v.constructor.name
ClassOf(v) == IF v.t = "object" /\ v.s # <<>> THEN v.s[1] ELSE ""

\* ToBoolean, as applied by !x and by x || y
Truthy(v) ==
  CASE v.t = "undefined" -> FALSE
    [] v.t = "string" -> v.s # <<>>
    [] v.t = "number" -> v.n # 0 \/ v.f
    [] v.t = "boolean" -> v.n = 1
    [] OTHER -> TRUE

\* x || y
OrElse(x, y) == IF Truthy(x) THEN x ELSE y

\* ------------------------------------------------------------------------
\* Characters and the character classes of the regular expressions
\* ------------------------------------------------------------------------

UpperChars ==
  {"A","B","C","D","E","F","G","H","I","J","K","L","M",
   "N","O","P","Q","R","S","T","U","V","W","X","Y","Z"}

LowerChars ==
  {"a","b","c","d","e","f","g","h","i","j","k","l","m",
   "n","o","p","q","r","s","t","u","v","w","x","y","z"}

DigitChars == {"0","1","2","3","4","5","6","7","8","9"}

\* \w
WordChars == UpperChars \cup LowerChars \cup DigitChars \cup {"_"}

\* \s (the members that occur in the model's alphabet)
SpaceChars == {" ", "\t", "\n", "\r"}

\* [1-9A-HJ-NP-Za-km-z]
Base58Chars ==
  (DigitChars \ {"0"}) \cup (UpperChars \ {"I", "O"}) \cup (LowerChars \ {"l"})

Range(q) == {q[i] : i \in 1..Len(q)}

StartsWith(q, p) == Len(q) >= Len(p) /\ SubSeq(q, 1, Len(p)) = p

DigitVal(c) ==
  CASE c = "0" -> 0 [] c = "1" -> 1 [] c = "2" -> 2 [] c = "3" -> 3
    [] c = "4" -> 4 [] c = "5" -> 5 [] c = "6" -> 6 [] c = "7" -> 7
    [] c = "8" -> 8 [] c = "9" -> 9

DigitChar(k) == <<"0","1","2","3","4","5","6","7","8","9">>[k + 1]

\* ------------------------------------------------------------------------
\* Integers beyond the machine word: BigInt and BN values are canonical
\* decimal digit strings
\* ------------------------------------------------------------------------

RECURSIVE NatToDigits(_)
NatToDigits(k) ==
  IF k < 10 THEN <<DigitChar(k)>>
  ELSE Append(NatToDigits(k \div 10), DigitChar(k % 10))

RECURSIVE StripZeros(_)
StripZeros(q) ==
  IF Len(q) > 1 /\ q[1] = "0" THEN StripZeros(Tail(q)) ELSE q

RECURSIVE LexGreater(_, _)
LexGreater(a, b) ==
  IF a = <<>> THEN FALSE
  ELSE IF a[1] # b[1] THEN DigitVal(a[1]) > DigitVal(b[1])
  ELSE LexGreater(Tail(a), Tail(b))

\* a > b on canonical digit strings
BigGreater(a, b) ==
  Len(a) > Len(b) \/ (Len(a) = Len(b) /\ LexGreater(a, b))

Zeros(k) == [i \in 1..k |-> "0"]

\* the digits of q \div 2, written digit by digit from the left; carry is
\* the remainder the digit before left
RECURSIVE Halve(_, _)
Halve(q, carry) ==
  IF q = <<>> THEN <<>>
  ELSE <<DigitChar((10 * carry + DigitVal(q[1])) \div 2)>>
         \o Halve(Tail(q), DigitVal(q[1]) % 2)

\* the digits of 2 * q + carry
RECURSIVE DoublePlus(_, _)
DoublePlus(q, carry) ==
  IF q = <<>> THEN (IF carry = 0 THEN <<>> ELSE <<DigitChar(carry)>>)
  ELSE Append(DoublePlus(SubSeq(q, 1, Len(q) - 1),
                         (2 * DigitVal(q[Len(q)]) + carry) \div 10),
              DigitChar((2 * DigitVal(q[Len(q)]) + carry) % 10))

\* The digits of the double nearest to an integer, a tie going to the even
\* one.  A double holds 53 binary digits: q is halved until it has no more,
\* round being the digit halved away last and sticky telling that a digit 1
\* was halved away before it; the rounded value is doubled back.
RECURSIVE NearestDouble(_, _, _)
NearestDouble(q, round, sticky) ==
  IF BigGreater(<<"9","0","0","7","1","9","9","2","5","4","7","4","0","9","9","2">>, q)
    THEN IF round = 1 /\ (sticky \/ DigitVal(q[Len(q)]) % 2 = 1)
           THEN DoublePlus(StripZeros(Halve(q, 0)), (DigitVal(q[Len(q)]) % 2) + 1)
         ELSE q
  ELSE DoublePlus(NearestDouble(StripZeros(Halve(q, 0)),
                                DigitVal(q[Len(q)]) % 2,
                                sticky \/ round = 1),
                  0)

\* Number(q) for a canonical digit string q, as the digits of its value
Number(q) == NearestDouble(q, 0, FALSE)

\* ------------------------------------------------------------------------
\* Parameter validators (utils/validation)
\* ------------------------------------------------------------------------

Valid == [isValid |-> TRUE, message |-> ""]

Invalid(msg) == [isValid |-> FALSE, message |-> msg]

MaxNameLength == 32

MaxSymbolLength == 10

MaxDecimals == 9

\* 2^64 - 1, the decimal digits of MAX_SUPPLY.toString()
MAX_SUPPLY ==
  <<"1","8","4","4","6","7","4","4","0","7","3","7","0","9","5","5","1","6","1","5">>

\* /[^\w\s\-.]/.test(q)
HasInvalidNameChar(q) ==
  \E i \in 1..Len(q) : q[i] \notin WordChars \cup SpaceChars \cup {"-", "."}

\* A pattern that would take letters of either case: /^[A-Z0-9]+$/i
MatchesSymbolRegexAnyCase(q) ==
  q # <<>> /\ \A i \in 1..Len(q) : q[i] \in UpperChars \cup LowerChars \cup DigitChars

\* /^[A-Z0-9]+$/.test(q)
MatchesSymbolRegex(q) ==
  q # <<>> /\ \A i \in 1..Len(q) : q[i] \in UpperChars \cup DigitChars

\* /^\d+$/.test(q)
AllDigits(q) == q # <<>> /\ \A i \in 1..Len(q) : q[i] \in DigitChars

validateTokenName(name) ==
  IF ~Truthy(name) \/ name.t # "string"
    THEN Invalid("Token name is required and must be a string")
  ELSE IF Len(name.s) > MaxNameLength
    THEN Invalid("Token name must be 32 characters or less")
  ELSE IF HasInvalidNameChar(name.s)
    THEN Invalid("Token name contains invalid characters. Use only letters, numbers, spaces, hyphens, and periods")
  ELSE Valid

validateTokenSymbol(symbol) ==
  IF ~Truthy(symbol) \/ symbol.t # "string"
    THEN Invalid("Token symbol is required and must be a string")
  ELSE IF Len(symbol.s) > MaxSymbolLength
    THEN Invalid("Token symbol must be 10 characters or less")
  ELSE IF ~MatchesSymbolRegex(symbol.s)
    THEN Invalid("Token symbol must contain only uppercase letters and numbers")
  ELSE Valid

validateDecimals(decimals) ==
  IF decimals.t # "number"
    THEN Invalid("Decimals must be a number")
  ELSE IF decimals # NaN
          /\ (decimals.n < 0 \/ decimals.n > MaxDecimals
                \/ (decimals.f /\ decimals.n = MaxDecimals)
                \/ decimals = Infinity)
    THEN Invalid("Decimals must be between 0 and 9")
  ELSE IF decimals.f \/ decimals = NaN
    THEN Invalid("Decimals must be an integer")
  ELSE Valid

SupplyResult(ok, msg, threw) ==
  [isValid |-> ok, message |-> msg, maxSupply |-> MAX_SUPPLY, threw |-> threw]

\* A test that would let a supply of zero through: supply < 0
SupplyNegative(initialSupply) ==
  initialSupply.t = "number" /\ initialSupply # NaN /\ initialSupply.n < 0

\* supply <= 0, where supply is Number(initialSupply) for a digit string
SupplyNotPositive(initialSupply) ==
  IF initialSupply.t = "string" THEN StripZeros(initialSupply.s) = <<"0">>
  ELSE initialSupply # NaN
         /\ (initialSupply.n < 0 \/ (initialSupply.n = 0 /\ ~initialSupply.f))

\* BigInt(supply) throws a RangeError for a number that is not an integer:
\* one with a fractional part, NaN, Infinity
BigIntThrows(initialSupply) ==
  initialSupply.t = "number" /\ (initialSupply.f \/ initialSupply.s # <<>>)

\* BigInt(supply), as its decimal digits, supply being Number(initialSupply)
\* for a digit string (the numbers of the model hold their integer exactly)
SupplyDigits(initialSupply) ==
  IF initialSupply.t = "string" THEN Number(StripZeros(initialSupply.s))
  ELSE NatToDigits(initialSupply.n)

\* threw: the call ended in an exception (BigInt of a non-integer) instead of
\* returning a result
validateInitialSupply(initialSupply) ==
  IF initialSupply.t = "string" /\ ~AllDigits(initialSupply.s)
    THEN SupplyResult(FALSE, "Initial supply must contain only digits", FALSE)
  ELSE IF initialSupply.t \notin {"string", "number"}
    THEN SupplyResult(FALSE, "Initial supply must be a number or numeric string", FALSE)
  ELSE IF SupplyNotPositive(initialSupply)
    THEN SupplyResult(FALSE, "Initial supply must be greater than 0", FALSE)
  ELSE IF BigIntThrows(initialSupply)
    THEN SupplyResult(FALSE, "RangeError", TRUE)
  ELSE IF BigGreater(SupplyDigits(initialSupply), MAX_SUPPLY)
    THEN SupplyResult(FALSE, "Initial supply must not exceed 18446744073709551615", FALSE)
  ELSE SupplyResult(TRUE, "", FALSE)

RECURSIVE DropSlashes(_)
DropSlashes(q) ==
  IF q # <<>> /\ q[1] \in {"/", "\\"} THEN DropSlashes(Tail(q)) ELSE q

\* new URL(q) succeeds: q is an absolute URL, that is a scheme, a colon and,
\* for a special scheme, a host that is not empty
URLParses(q) ==
  \E i \in 2..Len(q) :
    /\ q[i] = ":"
    /\ q[1] \in UpperChars \cup LowerChars
    /\ \A j \in 1..(i - 1) :
         q[j] \in UpperChars \cup LowerChars \cup DigitChars \cup {"+", "-", "."}
    /\ SubSeq(q, 1, i - 1) \in { <<"h","t","t","p">>, <<"h","t","t","p","s">>,
                               <<"f","t","p">>, <<"w","s">>, <<"w","s","s">> } =>
         LET host == DropSlashes(SubSeq(q, i + 1, Len(q)))
         IN  host # <<>> /\ host[1] \notin {"?", "#", ":", " "}

validateUri(uri) ==
  IF ~Truthy(uri) \/ uri.t # "string"
    THEN Invalid("Metadata URI is required and must be a string")
  ELSE IF ~URLParses(uri.s)
    THEN Invalid("Metadata URI must be a valid URL")
  ELSE IF ~StartsWith(uri.s, <<"h","t","t","p","s",":","/","/">>)
    THEN Invalid("Metadata URI should use HTTPS protocol for security")
  ELSE Valid

MinKeyLength == 32

MaxKeyLength == 44

\* /^[1-9A-HJ-NP-Za-km-z]{32,44}$/.test(q)
MatchesKeyRegex(q) ==
  /\ Len(q) >= MinKeyLength
  /\ Len(q) <= MaxKeyLength
  /\ \A i \in 1..Len(q) : q[i] \in Base58Chars

validatePublicKey(publicKey) ==
  IF ~Truthy(publicKey)
    THEN Invalid("Public key is required")
  ELSE IF publicKey.t = "object" /\ ClassOf(publicKey) = "PublicKey"
    THEN Valid
  ELSE IF publicKey.t = "string"
    THEN IF MatchesKeyRegex(publicKey.s) THEN Valid
         ELSE Invalid("Invalid Solana public key format")
  ELSE Invalid("Public key must be a string or PublicKey object")

\* errors.push(v.message) when v is not valid
PushIfInvalid(errors, v) ==
  IF v.isValid THEN errors ELSE Append(errors, v.message)

\* options: [name, symbol, decimals, initialSupply, uri, partnerWallet].
\* threw: validateInitialSupply raised, so no result is returned at all.
validateTokenCreationParams(options) ==
  LET Returned(supplyValidation, errors) ==
        [isValid |-> ~supplyValidation.threw /\ errors = <<>>,
         errors |-> IF supplyValidation.threw THEN <<>> ELSE errors,
         maxSupply |-> supplyValidation.maxSupply,
         threw |-> supplyValidation.threw]
      Errors(supplyValidation) ==
        PushIfInvalid(
          PushIfInvalid(
            PushIfInvalid(
              PushIfInvalid(<<>>, validateTokenName(options.name)),
              validateTokenSymbol(options.symbol)),
            validateDecimals(options.decimals)),
          supplyValidation)
        \o (IF Truthy(options.uri)
              THEN PushIfInvalid(<<>>, validateUri(options.uri))
            ELSE <<>>)
        \o (IF Truthy(options.partnerWallet)
                 /\ ~validatePublicKey(options.partnerWallet).isValid
              THEN <<"Partner wallet: "
                       \o validatePublicKey(options.partnerWallet).message>>
            ELSE <<>>)
      Validated(supplyValidation) ==
        Returned(supplyValidation, Errors(supplyValidation))
  IN  Validated(validateInitialSupply(options.initialSupply))

\* ------------------------------------------------------------------------
\* Interface descriptors (utils/idl)
\* ------------------------------------------------------------------------

\* An instruction of a descriptor: its name, the names of its accounts and
\* the names of its arguments, each in declaration order.
Instruction(name, accounts, args) ==
  [name |-> name, accounts |-> accounts, args |-> args]

\* The descriptor embedded in loadIDL
EmbeddedIDL ==
  << Instruction("updateNetworkFee",
                 <<"config", "admin", "systemProgram">>,
                 <<"newFeeLamports">>),
     Instruction("updateRevokeFee",
                 <<"config", "admin", "systemProgram">>,
                 <<"newFeeLamports">>),
     Instruction("createToken",
                 <<"payer", "config", "mint", "tokenAccount", "metadata",
                   "tokenPda", "tokenProgram", "metadataProgram",
                   "systemProgram", "partnerWallet", "rent",
                   "associatedTokenProgram">>,
                 <<"name", "symbol", "uniqueKey", "decimals", "initialSupply",
                   "uri", "revokeMint", "revokeFreeze", "partnerWallet",
                   "partnerAmount">>),
     Instruction("revokeAuthority",
                 <<"owner", "mint", "tokenProgram", "systemProgram",
                   "tokenPda", "payer", "config">>,
                 <<"revokeMint", "revokeFreeze">>) >>

\* The descriptor file shipped with the repository
FileIDL ==
  << Instruction("createToken",
                 <<"payer", "mint", "tokenAccount", "metadata", "tokenPda",
                   "tokenProgram", "metadataProgram", "systemProgram",
                   "partnerWallet", "rent", "associatedTokenProgram">>,
                 <<"name", "symbol", "uniqueKey", "decimals", "initialSupply",
                   "uri", "revokeMint", "revokeFreeze", "partnerWallet",
                   "partnerAmount">>),
     Instruction("revokeFreezeAuthority",
                 <<"payer", "mint", "tokenProgram", "systemProgram">>,
                 <<"name", "symbol", "uniqueKey">>) >>

\* A descriptor of the deployed program as a caller may pass it: the embedded
\* one with revokeAuthority declared the way revokeAuthority calls it.
DeployedIDL ==
  << EmbeddedIDL[1], EmbeddedIDL[2], EmbeddedIDL[3],
     Instruction("revokeAuthority",
                 <<"owner", "mint", "tokenProgram", "systemProgram",
                   "tokenPda", "payer", "partnerWallet", "config">>,
                 <<"revokeMint", "revokeFreeze", "partnerWallet",
                   "partnerAmount">>) >>

\* Descriptors are carried in the state by name
DocNames == {"embedded", "file", "deployed"}

Descriptor(doc) ==
  CASE doc = "embedded" -> EmbeddedIDL
    [] doc = "file" -> FileIDL
    [] doc = "deployed" -> DeployedIDL

HasInstruction(idl, name) == \E i \in 1..Len(idl) : idl[i].name = name

InstructionOf(idl, name) ==
  idl[CHOOSE i \in 1..Len(idl) : idl[i].name = name]

\* The file system and runtime loadIDL finds: whether the file it looks for
\* exists, whether its content parses as JSON, which descriptor it holds,
\* and whether a global fetch is defined.
Environments ==
  [exists : BOOLEAN, parses : BOOLEAN, content : DocNames, fetchDefined : BOOLEAN]

IdlNone == [state |-> "none", doc |-> "", fetching |-> FALSE]

IdlFulfilled(doc) == [state |-> "fulfilled", doc |-> doc, fetching |-> FALSE]

IdlRejected == [state |-> "rejected", doc |-> "", fetching |-> FALSE]

IdlFetching == [state |-> "pending", doc |-> "", fetching |-> TRUE]

\* The promise loadIDL returns, as it stands when loadIDL returns.  A caller's
\* descriptor object is the deployed program's descriptor.
loadIDL(idlSource, env) ==
  IF ~Truthy(idlSource)
    THEN IF env.exists /\ env.parses THEN IdlFulfilled(env.content)
         ELSE IdlFulfilled("embedded")
  ELSE IF idlSource.t = "object" THEN IdlFulfilled("deployed")
  ELSE IF idlSource.t = "string"
    THEN IF env.exists /\ env.parses THEN IdlFulfilled(env.content)
         ELSE IF ~env.fetchDefined THEN IdlRejected
         ELSE IdlFetching
  ELSE IdlRejected

\* What the pending fetch of loadIDL settles to: "ok" is a response whose
\* body parses, "status" a response that is not ok, "network" a failed
\* request, "body" a body that does not parse.
FetchOutcomes == {"ok", "status", "network", "body"}

FetchSettled(outcome, doc) ==
  IF outcome = "ok" THEN IdlFulfilled(doc) ELSE IdlRejected

\* ------------------------------------------------------------------------
\* Errors and the outcomes of a call
\* ------------------------------------------------------------------------

\* An Error: the fixed part of its message and, for a validation failure,
\* the validator messages joined into it.
Err(text) == [text |-> text, msgs |-> <<>>]

\* kind: how the returned promise stands ("thrown": the function raised
\* instead of returning a promise); fields: the properties of the value a
\* resolved promise carries.
NoResult ==
  [kind |-> "none", success |-> FALSE, error |-> Err(""), fields |-> {}]

Pending ==
  [kind |-> "pending", success |-> FALSE, error |-> Err(""), fields |-> {}]

\* Promise.reject(error)
Rejected(error) ==
  [kind |-> "rejected", success |-> FALSE, error |-> error, fields |-> {}]

\* an exception leaving the function
Thrown(error) ==
  [kind |-> "thrown", success |-> FALSE, error |-> error, fields |-> {}]

\* A .catch handler that would pass the error on
FailureRethrown(error) ==
  [kind |-> "rejected", success |-> FALSE, error |-> error, fields |-> {}]

\* the value of the .catch handlers: {success: false, error, details}
Failure(error) ==
  [kind |-> "resolved", success |-> FALSE, error |-> error,
   fields |-> {"success", "error", "details"}]

\* the value createToken resolves with after a confirmed transaction
CreateSuccess ==
  [kind |-> "resolved", success |-> TRUE, error |-> Err(""),
   fields |-> {"success", "mint", "tokenAccount", "metadata", "txSignature",
               "tokenName", "tokenSymbol"}]

\* the value revokeAuthority resolves with after a confirmed transaction
RevokeSuccess ==
  [kind |-> "resolved", success |-> TRUE, error |-> Err(""),
   fields |-> {"success", "mint", "txSignature", "revokedAuthorities"}]

\* ------------------------------------------------------------------------
\* Addresses
\* ------------------------------------------------------------------------

DEFAULT_PARTNER ==
  <<"7","v","i","H","j","1","u","6","a","Q","S","9","N","m","c","5","5","F",
    "o","k","X","3","B","9","N","b","D","J","U","P","w","M","Y","Q","v","K",
    "g","B","f","W","e","Y","X","E">>

\* new PublicKey(q) accepts the strings that decode to exactly 32 bytes
PublicKeyThrows(q) == q # DEFAULT_PARTNER

\* payer.publicKey
PublicKeyOf(payer) ==
  IF ClassOf(payer) \in {"Keypair", "Wallet"} THEN PubKey(<<"payer">>) ELSE Undef

\* x ? (typeof x === "string" ? new PublicKey(x) : x) : fallback; Undef with
\* threw when the constructor raises
ParseKey(x, fallback) ==
  IF ~Truthy(x) THEN [threw |-> FALSE, key |-> fallback]
  ELSE IF x.t = "string"
    THEN IF PublicKeyThrows(x.s) THEN [threw |-> TRUE, key |-> Undef]
         ELSE [threw |-> FALSE, key |-> PubKey(x.s)]
  ELSE [threw |-> FALSE, key |-> x]

DEFAULT_PROGRAM_ID == PubKey(<<"program">>)

\* The wallet the provider is built on: a Keypair is wrapped, an object with
\* publicKey and signTransaction is used as it is, anything else is refused.
WalletSupported(payer) == ClassOf(payer) \in {"Keypair", "Wallet"}

\* ------------------------------------------------------------------------
\* Address derivation (utils/pda).  findProgramAddress hashes the seeds and
\* the program id; an address is represented by what is hashed.
\* ------------------------------------------------------------------------

PAYMENT_SEED == <<"p","a","y","m","e","n","t","_","f","i","x","e","d">>

NETWORK_FEE_SEED ==
  <<"n","e","t","w","o","r","k","_","f","e","e","_","c","o","n","f","i","g">>

REVOKE_FEE_SEED ==
  <<"r","e","v","o","k","e","_","f","e","e","_","c","o","n","f","i","g">>

MINT_SEED == <<"t","o","k","e","n","-","m","i","n","t">>

\* the default value of deriveMintPDA's uniqueKey parameter
MINT_KEY_DEFAULT == <<"m","i","t","n","m","e",".","d","e","v">>

Derivation(fn, seeds, programId) ==
  [fn |-> fn, seeds |-> seeds, programId |-> programId]

derivePaymentPDA(programId) ==
  Derivation("derivePaymentPDA", <<PAYMENT_SEED>>, programId)

\* A seed that would not depend on the argument
MintKeySeedFixed(uniqueKey) == MINT_KEY_DEFAULT

\* A default parameter value replaces an argument that is undefined, and
\* only that.
MintKeySeed(uniqueKey) ==
  IF uniqueKey.t = "undefined" THEN MINT_KEY_DEFAULT ELSE uniqueKey.s

\* A derivation that would hash the symbol as well
deriveMintPDAWithSymbol(programId, payer, name, symbol, uniqueKey) ==
  Derivation("deriveMintPDA",
             <<MINT_SEED, payer.s, name.s, symbol.s, MintKeySeed(uniqueKey)>>,
             programId)

\* symbol is accepted and not used.  Buffer.from takes the bytes of a string;
\* the characters of the model are one byte each.
deriveMintPDA(programId, payer, name, symbol, uniqueKey) ==
  Derivation("deriveMintPDA",
             <<MINT_SEED, payer.s, name.s, MintKeySeed(uniqueKey)>>,
             programId)

RECURSIVE Flat(_)
Flat(seeds) == IF seeds = <<>> THEN <<>> ELSE seeds[1] \o Flat(Tail(seeds))

\* The address findProgramAddress finds: distinct inputs, distinct addresses
Address(d) == PubKey(<<d.fn>> \o Flat(d.seeds) \o d.programId.s)

METADATA_SEED == <<"m","e","t","a","d","a","t","a">>

\* The names utils/pda exports
PdaExports ==
  {"derivePaymentPDA", "deriveMintPDA", "deriveTokenAccount", "deriveMetadataAccount"}

\* ------------------------------------------------------------------------
\* createToken (token/creator)
\* ------------------------------------------------------------------------

DefaultDecimals == 9

DefaultInitialSupply == 1

DEFAULT_URI ==
  <<"h","t","t","p","s",":","/","/","i","p","f","s",".","m","i","n","t","m",
    "e",".","d","e","v","/","m","e","t","a","d","a","t","a",".","j","s","o","n">>

\* the uniqueKey createToken announces and sends when the caller gives none
DEFAULT_UNIQUE_KEY == <<"m","i","n","t","m","e",".","d","e","v">>

\* What createToken hands to validateTokenCreationParams
CreateTokenValidationInput(o) ==
  [name |-> o.name,
   symbol |-> o.symbol,
   decimals |-> OrElse(o.decimals, Num(DefaultDecimals)),
   initialSupply |-> OrElse(o.initialSupply, Num(DefaultInitialSupply)),
   uri |-> OrElse(o.uri, Str(DEFAULT_URI)),
   partnerWallet |-> o.partnerWallet]

\* An Error that would carry the first violation alone
ValidationErrorFirst(errors) ==
  [text |-> "Token validation failed", msgs |-> <<errors[1]>>]

\* The Error of a failed validation: "Token validation failed: " followed
\* by errors.join(", ")
ValidationError(errors) ==
  [text |-> "Token validation failed", msgs |-> errors]

NoValidation ==
  [called |-> FALSE, input |-> Undef, isValid |-> FALSE, errors |-> <<>>,
   threw |-> FALSE]

\* The validator is reached once connection and payer are there
CreateTokenValidation(o) ==
  IF Truthy(o.connection) /\ Truthy(o.payer)
    THEN LET Called(v) ==
               [called |-> TRUE, input |-> CreateTokenValidationInput(o),
                isValid |-> v.isValid, errors |-> v.errors, threw |-> v.threw]
         IN  Called(validateTokenCreationParams(CreateTokenValidationInput(o)))
  ELSE NoValidation

\* The constants createToken sets before it builds the provider
NoLocals ==
  [decimals |-> Undef, initialSupply |-> Undef, uri |-> Undef,
   revokeMint |-> Undef, revokeFreeze |-> Undef, uniqueKey |-> Undef,
   partnerWallet |-> Undef, partnerAmount |-> Undef, programId |-> Undef,
   mint |-> Undef, wallet |-> Undef]

CreateTokenLocals(o) ==
  [decimals |-> OrElse(o.decimals, Num(DefaultDecimals)),
   initialSupply |-> OrElse(o.initialSupply, Num(DefaultInitialSupply)),
   uri |-> OrElse(o.uri, Str(DEFAULT_URI)),
   revokeMint |-> OrElse(o.revokeMint, Bool(FALSE)),
   revokeFreeze |-> OrElse(o.revokeFreeze, Bool(FALSE)),
   uniqueKey |-> OrElse(o.uniqueKey, Str(DEFAULT_UNIQUE_KEY)),
   partnerWallet |-> ParseKey(o.partnerWallet, PublicKeyOf(o.payer)).key,
   partnerAmount |-> OrElse(o.partnerAmount, Num(0)),
   programId |-> ParseKey(o.programId, DEFAULT_PROGRAM_ID).key,
   mint |-> Undef,
   wallet |-> PublicKeyOf(o.payer)]

\* The synchronous part of createToken, up to the call of loadIDL: how the
\* promise it returns stands (Pending: loadIDL was called and the chain
\* hangs on it).
createTokenSync(o) ==
  IF ~Truthy(o.connection)
    THEN Rejected(Err("A Solana connection is required"))
  ELSE IF ~Truthy(o.payer)
    THEN Rejected(Err("A payer (wallet or keypair) is required"))
  ELSE LET Validated(validation) ==
             IF validation.threw
               THEN Thrown(Err("RangeError"))
             ELSE IF ~validation.isValid
               THEN Rejected(ValidationError(validation.errors))
             ELSE IF ParseKey(o.partnerWallet, PublicKeyOf(o.payer)).threw
               THEN Rejected(Err("Invalid partner wallet"))
             ELSE IF ParseKey(o.programId, DEFAULT_PROGRAM_ID).threw
               THEN Rejected(Err("Invalid program ID"))
             ELSE IF ~WalletSupported(o.payer)
               THEN Rejected(Err("Unsupported wallet format"))
             ELSE Pending
       IN  Validated(CreateTokenValidation(o))

\* new anchor.BN(x) for a number or a digit string
BN(x) ==
  IF x.t = "string" THEN StripZeros(x.s) ELSE NatToDigits(x.n)

NetworkFeeDeriverExported == "deriveNetworkFeeConfigPDA" \in PdaExports

\* A BN object holding the digits given
BNValue(digits) == [t |-> "object", s |-> <<"BN">> \o digits, n |-> 0, f |-> FALSE]

TOKEN_PROGRAM_ID == PubKey(<<"tokenProgram">>)

TOKEN_METADATA_PROGRAM_ID == PubKey(<<"metadataProgram">>)

SYSTEM_PROGRAM_ID == PubKey(<<"systemProgram">>)

SYSVAR_RENT_PUBKEY == PubKey(<<"rent">>)

ASSOCIATED_TOKEN_PROGRAM_ID == PubKey(<<"associatedTokenProgram">>)

Account(name, key) == [name |-> name, key |-> key]

\* anchor.utils.token.associatedAddress({mint, owner})
deriveTokenAccount(mintPDA, owner) ==
  Derivation("deriveTokenAccount", <<owner.s, TOKEN_PROGRAM_ID.s, mintPDA.s>>,
             ASSOCIATED_TOKEN_PROGRAM_ID)

deriveMetadataAccount(mintPDA) ==
  Derivation("deriveMetadataAccount",
             <<METADATA_SEED, TOKEN_METADATA_PROGRAM_ID.s, mintPDA.s>>,
             TOKEN_METADATA_PROGRAM_ID)

\* The element createToken writes as pdaUtils.deriveNetworkFeeConfigPDA(programId)
NetworkFeeDerivation(programId) ==
  Derivation("deriveNetworkFeeConfigPDA", <<NETWORK_FEE_SEED>>, programId)

\* Derivations whose mint address would depend on the symbol as well
createTokenDerivationsWithSymbol(o, l) ==
  << derivePaymentPDA(l.programId),
     deriveMintPDAWithSymbol(l.programId, l.wallet, o.name, o.symbol, o.uniqueKey) >>

\* The derivations the first callback of createToken starts, in the order
\* the elements of the array given to Promise.all are evaluated.  The third
\* element calls a function utils/pda does not export: evaluating it raises
\* a TypeError, the two derivations before it having been started.
createTokenDerivations(o, l) ==
  << derivePaymentPDA(l.programId),
     deriveMintPDA(l.programId, l.wallet, o.name, o.symbol, o.uniqueKey) >>
  \o (IF NetworkFeeDeriverExported THEN <<NetworkFeeDerivation(l.programId)>>
      ELSE <<>>)

\* The derivations the second callback adds, from the mint address of the
\* first three
createTokenAccountDerivations(l, ds) ==
  << deriveTokenAccount(Address(ds[2]), l.wallet),
     deriveMetadataAccount(Address(ds[2])) >>

\* results[0..4] of the last callback, as the addresses it reads from them
CreateTokenPdas(ds) ==
  [payment |-> Address(ds[1]), mint |-> Address(ds[2]),
   tokenAccount |-> Address(ds[4]), metadata |-> Address(ds[5]),
   config |-> Address(ds[3])]

\* The call as it was built for the descriptor file shipped with the
\* repository, which has no config account
createTokenInstructionNoConfig(o, l, supplyBN, pdas) ==
  [name |-> "createToken",
   args |-> << o.name, o.symbol, l.uniqueKey, l.decimals, BNValue(supplyBN),
               l.uri, l.revokeMint, l.revokeFreeze, l.partnerWallet,
               BNValue(BN(l.partnerAmount)) >>,
   accounts |-> << Account("payer", l.wallet),
                   Account("mint", pdas.mint),
                   Account("tokenAccount", pdas.tokenAccount),
                   Account("metadata", pdas.metadata),
                   Account("tokenPda", pdas.payment),
                   Account("tokenProgram", TOKEN_PROGRAM_ID),
                   Account("metadataProgram", TOKEN_METADATA_PROGRAM_ID),
                   Account("systemProgram", SYSTEM_PROGRAM_ID),
                   Account("partnerWallet", l.partnerWallet),
                   Account("rent", SYSVAR_RENT_PUBKEY),
                   Account("associatedTokenProgram", ASSOCIATED_TOKEN_PROGRAM_ID) >>]

\* The call createToken builds in its last callback: the positional
\* arguments of program.methods.createToken and the accounts object, its
\* keys in the order written.  pdas: [payment, mint, tokenAccount, metadata,
\* config].
createTokenInstruction(o, l, supplyBN, pdas) ==
  [name |-> "createToken",
   args |-> << o.name, o.symbol, l.uniqueKey, l.decimals, BNValue(supplyBN),
               l.uri, l.revokeMint, l.revokeFreeze, l.partnerWallet,
               BNValue(BN(l.partnerAmount)) >>,
   accounts |-> << Account("payer", l.wallet),
                   Account("config", pdas.config),
                   Account("mint", pdas.mint),
                   Account("tokenAccount", pdas.tokenAccount),
                   Account("metadata", pdas.metadata),
                   Account("tokenPda", pdas.payment),
                   Account("tokenProgram", TOKEN_PROGRAM_ID),
                   Account("metadataProgram", TOKEN_METADATA_PROGRAM_ID),
                   Account("systemProgram", SYSTEM_PROGRAM_ID),
                   Account("partnerWallet", l.partnerWallet),
                   Account("rent", SYSVAR_RENT_PUBKEY),
                   Account("associatedTokenProgram", ASSOCIATED_TOKEN_PROGRAM_ID) >>]

AccountNames(ix) == [i \in 1..Len(ix.accounts) |-> ix.accounts[i].name]

\* ------------------------------------------------------------------------
\* revokeAuthority (token/authority)
\* ------------------------------------------------------------------------

\* A reading of the flags that would take every value for a request to revoke
NotFalseAlways(v) == Bool(TRUE)

\* options.revokeMint !== false
NotFalse(v) == Bool(v # Bool(FALSE))

RevokeLocals(o) ==
  [decimals |-> Undef, initialSupply |-> Undef, uri |-> Undef,
   revokeMint |-> NotFalse(o.revokeMint),
   revokeFreeze |-> NotFalse(o.revokeFreeze),
   uniqueKey |-> Undef,
   partnerWallet |-> ParseKey(o.partnerWallet, PublicKeyOf(o.payer)).key,
   partnerAmount |-> OrElse(o.partnerAmount, Num(0)),
   programId |-> ParseKey(o.programId, DEFAULT_PROGRAM_ID).key,
   mint |-> ParseKey(o.mint, Undef).key,
   wallet |-> PublicKeyOf(o.payer)]

\* The synchronous part of revokeAuthority, up to the call of loadIDL
revokeAuthoritySync(o) ==
  IF ~Truthy(o.connection)
    THEN Rejected(Err("A Solana connection is required"))
  ELSE IF ~Truthy(o.payer)
    THEN Rejected(Err("A payer (wallet or keypair) is required"))
  ELSE IF ~Truthy(o.mint)
    THEN Rejected(Err("A token mint address is required"))
  ELSE IF ~Truthy(NotFalse(o.revokeMint)) /\ ~Truthy(NotFalse(o.revokeFreeze))
    THEN Rejected(Err("At least one authority must be specified to revoke"))
  ELSE IF ParseKey(o.mint, Undef).threw
    THEN Rejected(Err("Invalid mint address"))
  ELSE IF ParseKey(o.partnerWallet, PublicKeyOf(o.payer)).threw
    THEN Rejected(Err("Invalid partner wallet"))
  ELSE IF ParseKey(o.programId, DEFAULT_PROGRAM_ID).threw
    THEN Rejected(Err("Invalid program ID"))
  ELSE IF ~WalletSupported(o.payer)
    THEN Rejected(Err("Unsupported wallet format"))
  ELSE Pending

\* The three addresses the callback of revokeAuthority awaits in turn
revokeAuthorityDerivations(l) ==
  << Derivation("findProgramAddress", <<NETWORK_FEE_SEED>>, l.programId),
     Derivation("findProgramAddress", <<REVOKE_FEE_SEED>>, l.programId),
     Derivation("findProgramAddress", <<PAYMENT_SEED>>, l.programId) >>

\* The call revokeAuthority builds: positional arguments and the accounts
\* object, its keys in the order written.
revokeAuthorityInstruction(l, pdas) ==
  [name |-> "revokeAuthority",
   args |-> << l.revokeMint, l.revokeFreeze, l.partnerWallet,
               BNValue(BN(l.partnerAmount)) >>,
   accounts |-> << Account("owner", l.wallet),
                   Account("mint", l.mint),
                   Account("tokenProgram", TOKEN_PROGRAM_ID),
                   Account("systemProgram", SYSTEM_PROGRAM_ID),
                   Account("tokenPda", Address(pdas[3])),
                   Account("payer", l.wallet),
                   Account("partnerWallet", l.partnerWallet),
                   Account("config", Address(pdas[2])) >>]

\* The method builder of the framework sends a call only when the
\* descriptor declares the instruction, the number of arguments is the
\* declared one and every declared account is given.
BuilderAccepts(idl, ix) ==
  /\ HasInstruction(idl, ix.name)
  /\ Len(ix.args) = Len(InstructionOf(idl, ix.name).args)
  /\ Range(InstructionOf(idl, ix.name).accounts) \subseteq Range(AccountNames(ix))

\* How a sent transaction ends
RpcOutcomes == {"confirmed", "sendError", "confirmError"}

\* ------------------------------------------------------------------------
\* Unit conversion (utils/conversion)
\* ------------------------------------------------------------------------

LAMPORTS_PER_SOL == 1000000000

\* A number that is no small integer is written as a double: s holds the
\* digits of an integer m below 2^53 (at most 2^53 after rounding up) and n
\* a binary exponent e, the value being m / 2^e.

\* Math.round(solAmount * LAMPORTS_PER_SOL).  For m / 2^e the product
\* m * 10^9 is rounded to 53 binary digits, a tie going to the even value,
\* which leaves M / 2^f; Math.round is then the floor of M / 2^f + 1/2.
solToLamports(solAmount) ==
  LET RECURSIVE Reduce(_, _, _, _)
      \* q halved until it has 53 binary digits, rounded: <<M, halvings>>
      Reduce(q, round, sticky, k) ==
        IF BigGreater(<<"9","0","0","7","1","9","9","2","5","4","7","4","0","9","9","2">>, q)
          THEN IF round = 1 /\ (sticky \/ DigitVal(q[Len(q)]) % 2 = 1)
                 THEN <<DoublePlus(StripZeros(Halve(q, 0)), (DigitVal(q[Len(q)]) % 2) + 1), k>>
               ELSE <<q, k>>
        ELSE Reduce(StripZeros(Halve(q, 0)), DigitVal(q[Len(q)]) % 2,
                    sticky \/ round = 1, k + 1)
      RECURSIVE Div(_, _, _)
      \* the digits of q \div d, written digit by digit from the left
      Div(q, d, carry) ==
        IF q = <<>> THEN <<>>
        ELSE <<DigitChar((10 * carry + DigitVal(q[1])) \div d)>>
               \o Div(Tail(q), d, (10 * carry + DigitVal(q[1])) % d)
      RECURSIVE Shift(_, _)
      \* the floor of q / 2^f, sixteen binary digits at a time
      Shift(q, f) ==
        IF f = 0 THEN q
        ELSE IF f >= 16 THEN Shift(StripZeros(Div(q, 65536, 0)), f - 16)
        ELSE StripZeros(Div(q, 2^f, 0))
      RECURSIVE Unshift(_, _)
      \* q * 2^f
      Unshift(q, f) ==
        IF f = 0 THEN q ELSE Unshift(DoublePlus(q, 0), f - 1)
      \* (half + 1) \div 2, half being the floor of twice the value
      HalfUp(half) ==
        StripZeros(Halve(DoublePlus(StripZeros(Halve(half, 0)),
                                    (DigitVal(half[Len(half)]) % 2) + 1),
                         0))
      \* Math.round of M / 2^f for product = <<M, halvings>>
      Round(product) ==
        [t |-> "number",
         s |-> IF solAmount.n <= product[2]
                 THEN Unshift(product[1], product[2] - solAmount.n)
               ELSE HalfUp(Shift(product[1], solAmount.n - product[2] - 1)),
         n |-> 0, f |-> FALSE]
  IN  IF solAmount.s # <<>>
        THEN Round(Reduce(solAmount.s \o Zeros(9), 0, FALSE, 0))
      ELSE IF solAmount.f
        THEN Num(solAmount.n * LAMPORTS_PER_SOL + LAMPORTS_PER_SOL \div 2)
      ELSE Num(solAmount.n * LAMPORTS_PER_SOL)

\* lamportsAmount / LAMPORTS_PER_SOL for an integer amount: the double
\* nearest to the quotient, a tie going to the even one.  The amount is
\* doubled until the quotient by 10^9 has 53 binary digits; the quotient of
\* a decimal digit string by 10^9 is the string without its last nine
\* digits, and these are the remainder.
lamportsToSol(lamportsAmount) ==
  LET x == IF lamportsAmount.s = <<>> THEN NatToDigits(lamportsAmount.n)
           ELSE lamportsAmount.s
      RECURSIVE Times(_, _, _)
      \* the digits of c * q + carry
      Times(q, c, carry) ==
        IF q = <<>> THEN (IF carry = 0 THEN <<>> ELSE NatToDigits(carry))
        ELSE Append(Times(SubSeq(q, 1, Len(q) - 1), c,
                          (c * DigitVal(q[Len(q)]) + carry) \div 10),
                    DigitChar((c * DigitVal(q[Len(q)]) + carry) % 10))
      \* 2^52 * 10^9
      Least == <<"4","5","0","3","5","9","9","6","2","7","3","7","0","4","9","6">> \o Zeros(9)
      RECURSIVE ScaleUp(_, _)
      \* q * 2^k for the least k that brings it to Least, sixteen doublings
      \* at a time while that stays below: <<digits, e + k>>
      ScaleUp(q, e) ==
        IF BigGreater(Least, Times(q, 65536, 0))
          THEN ScaleUp(Times(q, 65536, 0), e + 16)
        ELSE IF BigGreater(Least, q) THEN ScaleUp(DoublePlus(q, 0), e + 1)
        ELSE <<q, e>>
      Quotient(scaled) ==
        LET quot == SubSeq(scaled[1], 1, Len(scaled[1]) - 9)
            rest == SubSeq(scaled[1], Len(scaled[1]) - 8, Len(scaled[1]))
            half == <<"5">> \o Zeros(8)
            up == \/ LexGreater(rest, half)
                  \/ rest = half /\ DigitVal(quot[Len(quot)]) % 2 = 1
        IN  [t |-> "number",
             s |-> IF up THEN DoublePlus(StripZeros(Halve(quot, 0)),
                                         (DigitVal(quot[Len(quot)]) % 2) + 1)
                   ELSE quot,
             n |-> scaled[2], f |-> FALSE]
  IN  IF x = <<"0">> THEN Num(0) ELSE Quotient(ScaleUp(x, 0))

\* ------------------------------------------------------------------------
\* createTokenSimple and revokeAuthoritySimple
\* ------------------------------------------------------------------------

\* Object.assign({}, defaultConfig, config): a key the caller gives wins
Merged(default, given) == IF given.t = "undefined" THEN default ELSE given

MINTME_DEV == <<"M","I","N","T","M","E",".","D","E","V">>

MTM == <<"M","T","M">>

DefaultSimpleSupply == 1000000000

\* the defaults of createTokenSimple merged with the caller's config
createTokenSimpleMerged(c) ==
  [tokenName |-> Merged(Str(MINTME_DEV), c.tokenName),
   tokenSymbol |-> Merged(Str(MTM), c.tokenSymbol),
   uniqueKey |-> Merged(Str(DEFAULT_UNIQUE_KEY), c.uniqueKey),
   decimals |-> Merged(Num(DefaultDecimals), c.decimals),
   initialSupply |-> Merged(Num(DefaultSimpleSupply), c.initialSupply),
   uri |-> Merged(Str(DEFAULT_URI), c.uri),
   revokeMint |-> Merged(Bool(FALSE), c.revokeMint),
   revokeFreeze |-> Merged(Bool(FALSE), c.revokeFreeze),
   partnerWallet |-> Merged(Str(DEFAULT_PARTNER), c.partnerWallet),
   partnerAmount |-> Merged(Num(0), c.partnerAmount),
   wallet |-> c.wallet]

\* supplyNum * Math.pow(10, decimals), then toString(): for an integer
\* supply the digits of the supply followed by the zeros of the factor (the
\* product is exact below 2^53, which the bounds of the model keep it).
calculateAdjustedSupply(supply, decimals) ==
  Str(StripZeros(SupplyDigits(supply) \o Zeros(decimals.n)))

\* The options createTokenSimple passes to createToken
createTokenSimpleOptions(m, payer) ==
  [connection |-> Obj("Connection"),
   payer |-> payer,
   name |-> m.tokenName,
   symbol |-> m.tokenSymbol,
   uniqueKey |-> m.uniqueKey,
   decimals |-> m.decimals,
   initialSupply |-> calculateAdjustedSupply(m.initialSupply, OrElse(m.decimals, Num(DefaultDecimals))),
   uri |-> m.uri,
   revokeMint |-> m.revokeMint,
   revokeFreeze |-> m.revokeFreeze,
   partnerWallet |-> m.partnerWallet,
   partnerAmount |-> solToLamports(m.partnerAmount),
   programId |-> Undef,
   idl |-> Undef]

\* the defaults of revokeAuthoritySimple merged with the caller's config
revokeAuthoritySimpleMerged(c) ==
  [mint |-> c.mint,
   revokeMint |-> Merged(Bool(TRUE), c.revokeMint),
   revokeFreeze |-> Merged(Bool(TRUE), c.revokeFreeze),
   partnerWallet |-> Merged(Str(DEFAULT_PARTNER), c.partnerWallet),
   partnerAmount |-> Merged(Num(0), c.partnerAmount),
   wallet |-> c.wallet]

\* The options revokeAuthoritySimple passes to revokeAuthority
revokeAuthoritySimpleOptions(m, payer) ==
  [connection |-> Obj("Connection"),
   payer |-> payer,
   mint |-> m.mint,
   revokeMint |-> m.revokeMint,
   revokeFreeze |-> m.revokeFreeze,
   partnerWallet |-> m.partnerWallet,
   partnerAmount |-> solToLamports(m.partnerAmount),
   programId |-> Undef,
   idl |-> Undef]

\* The wallet file as the Simple functions find it
WalletFiles == {"missing", "corrupt", "keypair"}

\* The payer of a Simple call: the wallet object when it has a publicKey,
\* the keypair of the wallet file otherwise
SimplePayer(m, walletFile) ==
  IF Truthy(m.wallet) /\ Truthy(PublicKeyOf(m.wallet)) THEN m.wallet
  ELSE IF walletFile = "keypair" THEN Obj("Keypair")
  ELSE Undef

\* The synchronous part of a Simple function, up to connection.getBalance
simpleSync(m, walletFile) ==
  IF Truthy(m.wallet) /\ Truthy(PublicKeyOf(m.wallet)) THEN Pending
  ELSE IF walletFile = "missing" THEN Rejected(Err("Wallet file not found"))
  ELSE IF walletFile = "corrupt" THEN Rejected(Err("Error loading wallet"))
  ELSE Pending

revokeAuthoritySimpleSync(m, walletFile) ==
  IF ~Truthy(m.mint) THEN Rejected(Err("Token mint address is required"))
  ELSE simpleSync(m, walletFile)

\* lamports a payer needs for createTokenSimple to go on
MinCreateBalance == 10000000

EstimatedRevokeFee == 2000000

EstimatedTxFee == 5000

RequiredRevokeBalance == EstimatedRevokeFee + EstimatedTxFee

\* What a promise of a Simple function's chain resolves to: every rejection
\* and every exception below the final .catch becomes a failure value.
Caught(out) ==
  IF out.kind \in {"rejected", "thrown"} THEN Failure(out.error) ELSE out

\* ------------------------------------------------------------------------
\* The requests of the model
\* ------------------------------------------------------------------------

\* numbers and strings a caller gives as initial supply
SupplyInputs ==
  {Undef, Frac(1), Str(<<"x">>)} \cup {Num(k) : k \in 0..MaxSupply}

\* the options of createToken: those that vary the token parameters, and
\* those that vary what the call needs around them
CreateTokenInputs ==
  [connection : {Obj("Connection")},
   payer : {Obj("Keypair")},
   name : {Str(MTM), Str(<<"M","$">>)},
   symbol : {Str(MTM), Str(<<"m","t","m">>)},
   uniqueKey : {Undef, Str(<<>>), Str(<<"K","1">>)},
   decimals : {Undef, Num(0), Num(6), Num(10)},
   initialSupply : SupplyInputs,
   uri : {Undef, Str(<<"h","t","t","p",":","/","/","x",".","i","o">>)},
   revokeMint : {Undef},
   revokeFreeze : {Undef},
   partnerWallet : {Undef},
   partnerAmount : {Undef},
   programId : {Undef},
   idl : {Undef}]
  \cup
  [connection : {Undef, Obj("Connection")},
   payer : {Undef, Obj("Keypair"), Obj("Wallet"), Obj("Object")},
   name : {Str(MTM)},
   symbol : {Str(MTM)},
   uniqueKey : {Undef},
   decimals : {Undef},
   initialSupply : {Num(1)},
   uri : {Undef},
   revokeMint : {Undef},
   revokeFreeze : {Undef, Bool(TRUE)},
   partnerWallet : {Undef, Str(DEFAULT_PARTNER), Str([i \in 1..32 |-> "z"])},
   partnerAmount : {Undef},
   programId : {Undef, Str(<<"x">>)},
   idl : {Undef, Obj("Idl"), Str(<<"i","d","l",".","j","s","o","n">>)}]

\* the options of revokeAuthority
RevokeAuthorityInputs ==
  [connection : {Undef, Obj("Connection")},
   payer : {Undef, Obj("Keypair"), Obj("Object")},
   mint : {Undef, Str(DEFAULT_PARTNER), Str([i \in 1..32 |-> "z"])},
   revokeMint : {Undef, Bool(TRUE), Bool(FALSE)},
   revokeFreeze : {Undef, Bool(TRUE), Bool(FALSE)},
   partnerWallet : {Undef, Str([i \in 1..32 |-> "z"])},
   partnerAmount : {Undef},
   programId : {Undef, Str(<<"x">>)},
   idl : {Undef, Obj("Idl"), Str(<<"i","d","l",".","j","s","o","n">>)}]

\* the config of createTokenSimple
CreateTokenSimpleInputs ==
  [tokenName : {Undef, Str(<<"M","$">>)},
   tokenSymbol : {Undef},
   uniqueKey : {Undef, Str(<<>>), Str(<<"K","1">>)},
   decimals : {Undef, Num(0), Num(6)},
   initialSupply : {Undef, Str(<<"2">>)} \cup {Num(k) : k \in 0..MaxSupply},
   uri : {Undef},
   revokeMint : {Undef},
   revokeFreeze : {Undef},
   partnerWallet : {Undef},
   partnerAmount : {Undef, Num(1)},
   wallet : {Undef, Obj("Wallet")}]

\* the config of revokeAuthoritySimple
RevokeAuthoritySimpleInputs ==
  [mint : {Undef, Str(DEFAULT_PARTNER)},
   revokeMint : {Undef, Bool(TRUE), Bool(FALSE)},
   revokeFreeze : {Undef, Bool(TRUE), Bool(FALSE)},
   partnerWallet : {Undef},
   partnerAmount : {Undef, Num(1)},
   wallet : {Undef, Obj("Wallet")}]

\* lamports connection.getBalance may report
Balances ==
  {0, RequiredRevokeBalance - 1, RequiredRevokeBalance,
   MinCreateBalance - 1, MinCreateBalance}

\* ------------------------------------------------------------------------
\* State
\* ------------------------------------------------------------------------

VARIABLES
  pc,           \* where the call in progress stands
  api,          \* the exported function the caller called
  config,       \* the merged config of a Simple call
  payer,        \* the payer a Simple call resolved
  core,         \* createToken or revokeAuthority, once it is entered
  options,      \* the options the core function was called with
  validation,   \* the call of validateTokenCreationParams and its result
  locals,       \* the constants of the core function
  idl,          \* the promise of loadIDL
  supplyBN,     \* initialSupplyBN, as digits
  derivations,  \* the address derivations started, in order
  sent,         \* the instructions submitted, in order
  calls,        \* how often the call in progress used the outside
  coreResult,   \* the promise the core function returned
  result,       \* the promise the caller holds
  request,      \* the arguments of a function exercised on its own
  verdict,      \* what validateTokenCreationParams returned for request
  assembled,    \* the instruction assembled for a valid request
  customLogger, \* the customLogger variable of creator.js and of authority.js
  logged,       \* the function that logged last and the logger it wrote to
  defaultProvider, \* the provider anchor.setProvider set last
  converted,    \* what a unit conversion exercised on its own returned
  race          \* two createToken calls in progress at once

vars ==
  <<pc, api, config, payer, core, options, validation, locals, idl, supplyBN,
    derivations, sent, calls, coreResult, result, request, verdict, assembled,
    customLogger, logged, defaultProvider, converted, race>>

NoCalls == [loads |-> 0, fetches |-> 0, submissions |-> 0, balances |-> 0]

NoVerdict ==
  [isValid |-> FALSE, errors |-> <<>>, maxSupply |-> <<>>, threw |-> FALSE,
   returned |-> FALSE]

NoInstruction == [name |-> "", args |-> <<>>, accounts |-> <<>>]

\* nothing in progress
Idle ==
  /\ pc = "idle"
  /\ api = ""
  /\ config = Undef
  /\ payer = Undef
  /\ core = ""
  /\ options = Undef
  /\ validation = NoValidation
  /\ locals = NoLocals
  /\ idl = IdlNone
  /\ supplyBN = <<>>
  /\ derivations = <<>>
  /\ sent = <<>>
  /\ calls = NoCalls
  /\ coreResult = NoResult
  /\ result = NoResult
  /\ customLogger = [creator |-> Obj("console.log"), authority |-> Obj("console.log")]
  /\ logged = [fn |-> "", logger |-> Undef, sink |-> Undef]
  /\ defaultProvider = Undef
  /\ converted = Undef
  /\ race = <<>>

Init ==
  /\ Idle
  /\ request = Undef
  /\ verdict = NoVerdict
  /\ assembled = NoInstruction

\* What the caller holds when the core function's promise stands as out: the
\* promise itself for a direct call, the chain of the Simple function
\* otherwise.
Outward(out) ==
  IF api \in {"createTokenSimple", "revokeAuthoritySimple"} THEN Caught(out)
  ELSE out

\* ------------------------------------------------------------------------
\* Entering the core functions
\* ------------------------------------------------------------------------

\* The environments that make a difference to a call that stands as out
EnvironmentsOf(out) ==
  IF out.kind = "pending" THEN Environments
  ELSE {[exists |-> FALSE, parses |-> FALSE, content |-> "embedded",
         fetchDefined |-> FALSE]}

\* The core function fn runs from its first line to its return statement:
\* the precondition checks, the constants, anchor.setProvider(provider) and
\* loadIDL(options.idl || null) when every check passed.
EnterCore(fn, o, env) ==
  LET out == IF fn = "createToken" THEN createTokenSync(o)
             ELSE revokeAuthoritySync(o)
      passed == out.kind = "pending"
      loaded == IF passed THEN loadIDL(OrElse(o.idl, Undef), env) ELSE IdlNone
  IN  /\ core' = fn
      /\ options' = o
      /\ validation' =
           IF fn = "createToken" THEN CreateTokenValidation(o) ELSE NoValidation
      /\ locals' =
           IF ~passed THEN NoLocals
           ELSE IF fn = "createToken" THEN CreateTokenLocals(o)
           ELSE RevokeLocals(o)
      /\ idl' = loaded
      /\ defaultProvider' =
           IF passed THEN Obj("AnchorProvider") ELSE defaultProvider
      /\ calls' = [calls EXCEPT
                     !.loads = @ + (IF passed THEN 1 ELSE 0),
                     !.fetches = @ + (IF loaded.fetching THEN 1 ELSE 0)]
      /\ coreResult' = out
      /\ pc' = IF passed THEN "idl" ELSE "done"
      /\ UNCHANGED <<supplyBN, derivations, sent>>

\* createToken(options)
CallCreateToken ==
  /\ pc = "idle"
  /\ \E o \in CreateTokenInputs :
       \E env \in EnvironmentsOf(createTokenSync(o)) :
         /\ api' = "createToken"
         /\ EnterCore("createToken", o, env)
         /\ result' = createTokenSync(o)
  /\ UNCHANGED <<config, payer, request, verdict, assembled,
                 customLogger, logged, converted, race>>

\* revokeAuthority(options)
CallRevokeAuthority ==
  /\ pc = "idle"
  /\ \E o \in RevokeAuthorityInputs :
       \E env \in EnvironmentsOf(revokeAuthoritySync(o)) :
         /\ api' = "revokeAuthority"
         /\ EnterCore("revokeAuthority", o, env)
         /\ result' = revokeAuthoritySync(o)
  /\ UNCHANGED <<config, payer, request, verdict, assembled,
                 customLogger, logged, converted, race>>

\* A Simple function runs to its return statement: the merge, the wallet,
\* and connection.getBalance when a payer was found.
EnterSimple(fn, m, out, walletFile) ==
  /\ api' = fn
  /\ config' = m
  /\ payer' = IF out.kind = "pending" THEN SimplePayer(m, walletFile) ELSE Undef
  /\ calls' = [calls EXCEPT !.balances = @ + (IF out.kind = "pending" THEN 1 ELSE 0)]
  /\ result' = out
  /\ pc' = IF out.kind = "pending" THEN "balance" ELSE "done"
  /\ UNCHANGED <<core, options, validation, locals, idl, supplyBN,
                 derivations, sent, coreResult, request, verdict, assembled,
                 customLogger, logged, defaultProvider, converted, race>>

\* createTokenSimple(config)
CallCreateTokenSimple ==
  /\ pc = "idle"
  /\ \E c \in CreateTokenSimpleInputs, walletFile \in WalletFiles :
       EnterSimple("createTokenSimple", createTokenSimpleMerged(c),
                   simpleSync(createTokenSimpleMerged(c), walletFile), walletFile)

\* revokeAuthoritySimple(config)
CallRevokeAuthoritySimple ==
  /\ pc = "idle"
  /\ \E c \in RevokeAuthoritySimpleInputs, walletFile \in WalletFiles :
       EnterSimple("revokeAuthoritySimple", revokeAuthoritySimpleMerged(c),
                   revokeAuthoritySimpleSync(revokeAuthoritySimpleMerged(c), walletFile),
                   walletFile)

\* the callback of getBalance in createTokenSimple
CreateTokenSimpleOnBalance ==
  /\ pc = "balance"
  /\ api = "createTokenSimple"
  /\ \E balance \in Balances :
       IF balance < MinCreateBalance
         THEN /\ result' = Failure(Err("Insufficient balance"))
              /\ pc' = "done"
              /\ UNCHANGED <<core, options, validation, locals, idl, supplyBN,
                             derivations, sent, calls, coreResult,
                             defaultProvider>>
       ELSE \E env \in EnvironmentsOf(createTokenSync(createTokenSimpleOptions(config, payer))) :
              /\ EnterCore("createToken", createTokenSimpleOptions(config, payer), env)
              /\ result' = Caught(createTokenSync(createTokenSimpleOptions(config, payer)))
  /\ UNCHANGED <<api, config, payer, request, verdict, assembled,
                 customLogger, logged, converted, race>>

\* the callback of getBalance in revokeAuthoritySimple
RevokeAuthoritySimpleOnBalance ==
  /\ pc = "balance"
  /\ api = "revokeAuthoritySimple"
  /\ \E balance \in Balances :
       IF balance < RequiredRevokeBalance
         THEN /\ result' = Failure(Err("Insufficient balance"))
              /\ pc' = "done"
              /\ UNCHANGED <<core, options, validation, locals, idl, supplyBN,
                             derivations, sent, calls, coreResult,
                             defaultProvider>>
       ELSE \E env \in EnvironmentsOf(revokeAuthoritySync(revokeAuthoritySimpleOptions(config, payer))) :
              /\ EnterCore("revokeAuthority", revokeAuthoritySimpleOptions(config, payer), env)
              /\ result' = Caught(revokeAuthoritySync(revokeAuthoritySimpleOptions(config, payer)))
  /\ UNCHANGED <<api, config, payer, request, verdict, assembled,
                 customLogger, logged, converted, race>>

\* getBalance rejects: the final .catch of the Simple function
BalanceRejected ==
  /\ pc = "balance"
  /\ result' = Failure(Err("getBalance failed"))
  /\ pc' = "done"
  /\ UNCHANGED <<api, config, payer, core, options, validation, locals, idl,
                 supplyBN, derivations, sent, calls, coreResult, request,
                 verdict, assembled,
                 customLogger, logged, defaultProvider, converted, race>>

\* ------------------------------------------------------------------------
\* The promise chains of the core functions
\* ------------------------------------------------------------------------

\* The promise of the core function settles as out
Finish(out) ==
  /\ coreResult' = out
  /\ result' = Outward(out)
  /\ pc' = "done"

\* the fetch loadIDL started settles
FetchSettle ==
  /\ pc = "idl"
  /\ idl.state = "pending"
  /\ \E outcome \in FetchOutcomes, doc \in DocNames :
       idl' = FetchSettled(outcome, doc)
  /\ UNCHANGED <<pc, api, config, payer, core, options, validation, locals,
                 supplyBN, derivations, sent, calls, coreResult, result,
                 request, verdict, assembled,
                 customLogger, logged, defaultProvider, converted, race>>

\* createToken: the callback of loadIDL, or the .catch when loadIDL rejected
CreateTokenOnIdl ==
  /\ pc = "idl"
  /\ core = "createToken"
  /\ idl.state \in {"fulfilled", "rejected"}
  /\ IF idl.state = "rejected"
       THEN /\ Finish(Failure(Err("descriptor load failed")))
            /\ UNCHANGED <<supplyBN, derivations>>
     ELSE /\ supplyBN' = BN(locals.initialSupply)
          /\ derivations' = createTokenDerivations(options, locals)
          /\ IF NetworkFeeDeriverExported
               THEN /\ pc' = "deriving"
                    /\ UNCHANGED <<coreResult, result>>
             ELSE Finish(Failure(Err("pdaUtils.deriveNetworkFeeConfigPDA is not a function")))
  /\ UNCHANGED <<api, config, payer, core, options, validation, locals, idl,
                 sent, calls, request, verdict, assembled,
                 customLogger, logged, defaultProvider, converted, race>>

\* revokeAuthority: the callback of loadIDL up to its awaits, or the .catch
RevokeAuthorityOnIdl ==
  /\ pc = "idl"
  /\ core = "revokeAuthority"
  /\ idl.state \in {"fulfilled", "rejected"}
  /\ IF idl.state = "rejected"
       THEN /\ Finish(Failure(Err("descriptor load failed")))
            /\ UNCHANGED derivations
     ELSE /\ derivations' = revokeAuthorityDerivations(locals)
          /\ pc' = "deriving"
          /\ UNCHANGED <<coreResult, result>>
  /\ UNCHANGED <<api, config, payer, core, options, validation, locals, idl,
                 supplyBN, sent, calls, request, verdict, assembled,
                 customLogger, logged, defaultProvider, converted, race>>

\* The call the core function builds from the addresses derived
BuiltInstruction ==
  IF core = "createToken"
    THEN createTokenInstruction(options, locals, supplyBN, CreateTokenPdas(derivations))
  ELSE revokeAuthorityInstruction(locals, derivations)

\* The derivations awaited settle.  With all addresses at hand the call is
\* built and .rpc() sends it, unless the builder refuses it.
DerivationsSettle ==
  /\ pc = "deriving"
  /\ \E found \in BOOLEAN :
       IF ~found
         THEN /\ Finish(Failure(Err("address derivation failed")))
              /\ UNCHANGED <<derivations, sent, calls>>
       ELSE IF core = "createToken" /\ Len(derivations) = 3
         THEN /\ derivations' =
                   derivations \o createTokenAccountDerivations(locals, derivations)
              /\ UNCHANGED <<pc, sent, calls, coreResult, result>>
       ELSE IF BuilderAccepts(Descriptor(idl.doc), BuiltInstruction)
         THEN /\ sent' = Append(sent, BuiltInstruction)
              /\ calls' = [calls EXCEPT !.submissions = @ + 1]
              /\ pc' = "rpc"
              /\ UNCHANGED <<derivations, coreResult, result>>
       ELSE /\ Finish(Failure(Err("the method builder refused the call")))
            /\ UNCHANGED <<derivations, sent, calls>>
  /\ UNCHANGED <<api, config, payer, core, options, validation, locals, idl,
                 supplyBN, request, verdict, assembled,
                 customLogger, logged, defaultProvider, converted, race>>

\* A settlement that would send the transaction a second time after an error
RpcSettleResending ==
  /\ pc = "rpc"
  /\ \E outcome \in RpcOutcomes :
       IF outcome = "confirmed"
         THEN /\ Finish(IF core = "createToken" THEN CreateSuccess ELSE RevokeSuccess)
              /\ UNCHANGED <<sent, calls>>
       ELSE IF calls.submissions < 2
         THEN /\ sent' = Append(sent, BuiltInstruction)
              /\ calls' = [calls EXCEPT !.submissions = @ + 1]
              /\ UNCHANGED <<pc, coreResult, result>>
       ELSE /\ Finish(Failure(Err(outcome)))
            /\ UNCHANGED <<sent, calls>>
  /\ UNCHANGED <<api, config, payer, core, options, validation, locals, idl,
                 supplyBN, derivations, request, verdict, assembled,
                 customLogger, logged, defaultProvider, converted, race>>

\* the transaction sent is confirmed, or sending or confirming fails
RpcSettle ==
  /\ pc = "rpc"
  /\ \E outcome \in RpcOutcomes :
       IF outcome = "confirmed"
         THEN Finish(IF core = "createToken" THEN CreateSuccess ELSE RevokeSuccess)
       ELSE Finish(Failure(Err(outcome)))
  /\ UNCHANGED <<api, config, payer, core, options, validation, locals, idl,
                 supplyBN, derivations, sent, calls, request, verdict, assembled,
                 customLogger, logged, defaultProvider, converted, race>>

Next ==
  \/ CallCreateToken
  \/ CallRevokeAuthority
  \/ CallCreateTokenSimple
  \/ CallRevokeAuthoritySimple
  \/ CreateTokenSimpleOnBalance
  \/ RevokeAuthoritySimpleOnBalance
  \/ BalanceRejected
  \/ FetchSettle
  \/ CreateTokenOnIdl
  \/ RevokeAuthorityOnIdl
  \/ DerivationsSettle
  \/ RpcSettle

Spec == Init /\ [][Next]_vars

\* ------------------------------------------------------------------------
\* validateTokenCreationParams on its own
\* ------------------------------------------------------------------------

\* the parameter objects validated
ValidateRequests ==
  [name : {Str(MTM), Str(<<"M","\t","M">>), Str(<<"M","\n">>),
           Str(<<"a","_","b","-","c",".","d"," ","1">>),
           Str([i \in 1..MaxNameLength |-> "n"]),
           Str([i \in 1..(MaxNameLength + 1) |-> "n"])},
   symbol : {Str(MTM)},
   decimals : {Num(9)},
   initialSupply : {Num(1)},
   uri : {Undef},
   partnerWallet : {Undef}]
  \cup
  [name : {Str(MTM)},
   symbol : {Str(<<>>), Str(<<"A","1">>), Str(<<"A","-","B">>), Str(<<"m","T","M">>),
             Str([i \in 1..MaxSymbolLength |-> "S"]),
             Str([i \in 1..(MaxSymbolLength + 1) |-> "S"]),
             Str([i \in 1..(MaxSymbolLength + 1) |-> "s"]), Num(5)},
   decimals : {Num(9)},
   initialSupply : {Num(1)},
   uri : {Undef},
   partnerWallet : {Undef}]
  \cup
  [name : {Str(MTM)},
   symbol : {Str(MTM), Str(<<"m","t","m">>)},
   decimals : {Num(9), NaN, Infinity},
   initialSupply : {Num(-5), Frac(-1), Frac(0), NaN, Infinity, Bool(TRUE),
                    Str(<<"0","0","7">>), Str(<<"-","5">>), Str(MAX_SUPPLY),
                    Str(<<"1","8","4","4","6","7","4","4","0","7","3","7","0","9","5","5","0","5","9","1">>),
                    Str(<<"1","8","4","4","6","7","4","4","0","7","3","7","0","9","5","5","0","5","9","2">>)},
   uri : {Undef},
   partnerWallet : {Undef}]
  \cup
  [name : {Undef, Str(<<>>), Str(MTM), Str(<<"M","$">>)},
   symbol : {Undef, Str(MTM), Str(<<"m","t","m">>)},
   decimals : {Undef, Num(0), Num(9), Num(10), Frac(1)},
   initialSupply : SupplyInputs \cup {Str(<<"0">>), Str(<<"7">>), Str(<<"1","8","4","4","6","7","4","4","0","7","3","7","0","9","5","5","1","6","1","6">>)},
   uri : {Undef, Str(DEFAULT_URI), Str(<<"h","t","t","p",":","/","/","x",".","i","o">>)},
   partnerWallet : {Undef, Str(DEFAULT_PARTNER), Str(<<"x">>)}]

InitValidate ==
  /\ Idle
  /\ request \in ValidateRequests
  /\ verdict = NoVerdict
  /\ assembled = NoInstruction

\* validateTokenCreationParams(request) returns, or raises
ValidateAll ==
  /\ verdict = NoVerdict
  /\ verdict' = [isValid |-> validateTokenCreationParams(request).isValid,
                 errors |-> validateTokenCreationParams(request).errors,
                 maxSupply |-> validateTokenCreationParams(request).maxSupply,
                 threw |-> validateTokenCreationParams(request).threw,
                 returned |-> ~validateTokenCreationParams(request).threw]
  /\ UNCHANGED <<pc, api, config, payer, core, options, validation, locals,
                 idl, supplyBN, derivations, sent, calls, coreResult, result,
                 request, assembled,
                 customLogger, logged, defaultProvider, converted, race>>

SpecValidate == InitValidate /\ [][ValidateAll]_vars

\* ------------------------------------------------------------------------
\* The createToken call on its own: what the last callback of createToken
\* builds for a request that reached loadIDL
\* ------------------------------------------------------------------------

InitAssemble ==
  /\ Idle
  /\ request \in {o \in CreateTokenInputs : createTokenSync(o).kind = "pending"}
  /\ verdict = NoVerdict
  /\ assembled = NoInstruction

\* the five results the last callback receives, for the constants l of the
\* request o
AssembleDerivations(o, l) ==
  LET first == << derivePaymentPDA(l.programId),
                  deriveMintPDA(l.programId, l.wallet, o.name, o.symbol, o.uniqueKey),
                  NetworkFeeDerivation(l.programId) >>
  IN  first \o createTokenAccountDerivations(l, first)

\* program.methods.createToken(...).accounts({...}) of the request
Assemble ==
  /\ assembled = NoInstruction
  /\ assembled' =
       createTokenInstruction(request, CreateTokenLocals(request),
                              BN(CreateTokenLocals(request).initialSupply),
                              CreateTokenPdas(AssembleDerivations(request, CreateTokenLocals(request))))
  /\ UNCHANGED <<pc, api, config, payer, core, options, validation, locals,
                 idl, supplyBN, derivations, sent, calls, coreResult, result,
                 request, verdict,
                 customLogger, logged, defaultProvider, converted, race>>

SpecAssemble == InitAssemble /\ [][Assemble]_vars

\* ------------------------------------------------------------------------
\* deriveMintPDA on its own: two calls, one after the other
\* ------------------------------------------------------------------------

InitDerive ==
  /\ Idle
  /\ request \in
       [programId : {DEFAULT_PROGRAM_ID, PubKey(<<"other">>)},
        payer : {PubKey(<<"payer">>), PubKey(<<"other">>)},
        name : {Str(<<"A">>), Str(<<"A","B">>)},
        symbol : {Str(MTM), Str(<<"X">>)},
        uniqueKey : {Undef, Str(<<>>), Str(<<"B">>), Str(MINT_KEY_DEFAULT)}]
       \X
       [programId : {DEFAULT_PROGRAM_ID, PubKey(<<"other">>)},
        payer : {PubKey(<<"payer">>)},
        name : {Str(<<"A">>), Str(<<"A","B">>)},
        symbol : {Str(MTM), Str(<<"X">>)},
        uniqueKey : {Undef, Str(<<>>), Str(<<"B">>), Str(MINT_KEY_DEFAULT)}]
  /\ verdict = NoVerdict
  /\ assembled = NoInstruction

\* deriveMintPDA is called with the next arguments of request
DeriveMint ==
  /\ Len(derivations) < Len(request)
  /\ derivations' =
       Append(derivations,
              deriveMintPDA(request[Len(derivations) + 1].programId,
                            request[Len(derivations) + 1].payer,
                            request[Len(derivations) + 1].name,
                            request[Len(derivations) + 1].symbol,
                            request[Len(derivations) + 1].uniqueKey))
  /\ UNCHANGED <<pc, api, config, payer, core, options, validation, locals,
                 idl, supplyBN, sent, calls, coreResult, result, request,
                 verdict, assembled,
                 customLogger, logged, defaultProvider, converted, race>>

SpecDerive == InitDerive /\ [][DeriveMint]_vars

\* ------------------------------------------------------------------------
\* loadIDL on its own: a source, and the environment the call finds
\* ------------------------------------------------------------------------

InitLoad ==
  /\ Idle
  /\ request \in
       [source : {Undef, Str(<<>>), Obj("Idl"), Bool(TRUE),
                  Str(<<"i","d","l",".","j","s","o","n">>),
                  Str(<<"h","t","t","p","s",":","/","/","x",".","i","o","/","i","d","l">>)},
        env : Environments]
  /\ verdict = NoVerdict
  /\ assembled = NoInstruction

\* loadIDL(request.source) runs to its return statement
Load ==
  /\ idl = IdlNone
  /\ idl' = loadIDL(request.source, request.env)
  /\ calls' = [calls EXCEPT
                 !.loads = @ + 1,
                 !.fetches = @ + (IF loadIDL(request.source, request.env).fetching
                                    THEN 1 ELSE 0)]
  /\ UNCHANGED <<pc, api, config, payer, core, options, validation, locals,
                 supplyBN, derivations, sent, coreResult, result, request,
                 verdict, assembled,
                 customLogger, logged, defaultProvider, converted, race>>

SpecLoad == InitLoad /\ [][Load]_vars

\* ------------------------------------------------------------------------
\* The loggers on their own: setCustomLogger and the first statement of
\* the four operations
\* ------------------------------------------------------------------------

\* setCustomLogger(loggerFunction).  The library exports the function of
\* token/authority under this name; token/creator has one of its own, which
\* only a caller that requires that module reaches.
SetCustomLogger ==
  /\ \E module \in {"authority", "creator"} :
       \E loggerFunction \in {Undef, Obj("f"), Obj("g")} :
         customLogger' =
           [customLogger EXCEPT ![module] = OrElse(loggerFunction, Obj("console.log"))]
  /\ UNCHANGED <<pc, api, config, payer, core, options, validation, locals,
                 idl, supplyBN, derivations, sent, calls, coreResult, result,
                 request, verdict, assembled, logged, defaultProvider,
                 converted, race>>

\* An operation is called and writes its messages to
\* options.logger || customLogger, the customLogger of the module that
\* defines the operation.  createTokenSimple hands its logger on to
\* createToken, and revokeAuthoritySimple to revokeAuthority.
OperationLogs ==
  /\ \E fn \in {"createToken", "createTokenSimple", "revokeAuthority",
                 "revokeAuthoritySimple"} :
       \E logger \in {Undef, Obj("f"), Obj("g")} :
         logged' =
           [fn |-> fn, logger |-> logger,
            sink |-> OrElse(logger,
                            IF fn \in {"createToken", "createTokenSimple"}
                              THEN customLogger.creator
                            ELSE customLogger.authority)]
  /\ UNCHANGED <<pc, api, config, payer, core, options, validation, locals,
                 idl, supplyBN, derivations, sent, calls, coreResult, result,
                 request, verdict, assembled, customLogger, defaultProvider,
                 converted, race>>

SpecLog == Init /\ [][SetCustomLogger \/ OperationLogs]_vars

\* ------------------------------------------------------------------------
\* The unit conversions on their own: lamports to SOL and back
\* ------------------------------------------------------------------------

\* lamportsToSol(x), and solToLamports of what it returned, for an integer
\* amount x: a small one, or one of the amounts up to 2^53 - 1 listed
\* (10^9, 1.5 * 10^9, 2^31, 2^51, 2^52 - 1 among them)
Convert ==
  /\ converted = Undef
  /\ \E x \in {Num(k) : k \in 0..MaxLamports}
              \cup {[t |-> "number", s |-> q, n |-> 0, f |-> FALSE] :
                      q \in {<<"1","0","0","0","0","0","0","0","0","0">>,
                              <<"1","5","0","0","0","0","0","0","0","0">>,
                              <<"2","1","4","7","4","8","3","6","4","8">>,
                              <<"1","2","3","4","5","6","7","8","9","0","1","2">>,
                              <<"2","2","5","1","7","9","9","8","1","3","6","8","5","2","4","8">>,
                              <<"4","2","1","8","9","9","2","0","6","8","2","2","4","4","2","5">>,
                              <<"4","5","0","3","5","9","9","6","2","7","3","7","0","4","9","5">>,
                              <<"8","5","0","4","6","2","3","2","5","5","2","4","7","6","8","1">>,
                              <<"9","0","0","7","1","9","9","2","5","4","7","4","0","9","9","1">>}} :
       LET Back(sol) == [sol |-> sol, lamports |-> solToLamports(sol)]
       IN  /\ request' = x
           /\ converted' = Back(lamportsToSol(x))
  /\ UNCHANGED <<pc, api, config, payer, core, options, validation, locals,
                 idl, supplyBN, derivations, sent, calls, coreResult, result,
                 verdict, assembled, customLogger, logged, defaultProvider,
                 race>>

SpecConvert == Init /\ [][Convert]_vars

\* ------------------------------------------------------------------------
\* createTokenSimple behind createToken: the callbacks that receive what
\* createToken's promise settled to, taken on their own
\* ------------------------------------------------------------------------

\* The promise of createToken stands as tokenResult: a rejection or an
\* exception goes to the final .catch; a value is kept as tokenResult, the
\* first callback returns null, and the second one, which receives that
\* null as revokeResult, adds freezeRevoked and freezeRevokeTx when
\* tokenResult.success and revokeResult are truthy, and returns
\* tokenResult.
CreateTokenSimpleOnResult ==
  /\ pc = "idle"
  /\ \E c \in {i \in CreateTokenSimpleInputs :
                  i.uniqueKey = Undef /\ i.decimals = Undef /\ i.partnerAmount = Undef} :
       \E revokeMint \in {Undef, Bool(TRUE), Bool(FALSE)} :
         \E revokeFreeze \in {Undef, Bool(TRUE), Bool(FALSE)} :
           \E tokenResult \in {CreateSuccess, Failure(Err("sendError")),
                                Rejected(Err("Unsupported wallet format")),
                                Thrown(Err("RangeError"))} :
             LET revokeResult == Undef
                 returned ==
                   IF tokenResult.success /\ Truthy(revokeResult)
                     THEN [tokenResult EXCEPT
                             !.fields = @ \cup {"freezeRevoked", "freezeRevokeTx"}]
                   ELSE tokenResult
             IN  /\ api' = "createTokenSimple"
                 /\ config' = createTokenSimpleMerged(
                                 [c EXCEPT !.revokeMint = revokeMint,
                                           !.revokeFreeze = revokeFreeze])
                 /\ coreResult' = tokenResult
                 /\ result' = Caught(returned)
                 /\ pc' = "done"
  /\ UNCHANGED <<payer, core, options, validation, locals, idl, supplyBN,
                 derivations, sent, calls, request, verdict, assembled,
                 customLogger, logged, defaultProvider, converted, race>>

SpecSimpleResult == Init /\ [][CreateTokenSimpleOnResult]_vars

\* ------------------------------------------------------------------------
\* Two createToken calls at once, for one payer, name and uniqueKey
\* ------------------------------------------------------------------------

\* createToken(o) is called while at most one other call is in progress:
\* its checks, anchor.setProvider and loadIDL(null), which finds no default
\* file and resolves with the embedded descriptor.  The calls share payer,
\* name and uniqueKey and differ in what else they ask for.
RaceCall ==
  /\ Len(race) < 2
  /\ \E o \in [connection : {Obj("Connection")},
              payer : {Obj("Keypair")},
              name : {Str(MTM)},
              symbol : {Str(MTM), Str(<<"X">>), Str(<<"m","t","m">>)},
              uniqueKey : {Str(<<"K","1">>)},
              decimals : {Undef, Num(6)},
              initialSupply : {Undef, Num(2), Frac(1)},
              uri : {Undef},
              revokeMint : {Undef},
              revokeFreeze : {Undef},
              partnerWallet : {Undef},
              partnerAmount : {Undef},
              programId : {Undef},
              idl : {Undef}] :
       LET Entered(out) ==
             /\ race' = Append(race,
                               [options |-> o,
                                pc |-> IF out.kind = "pending" THEN "idl" ELSE "done",
                                derivations |-> <<>>,
                                submissions |-> 0,
                                result |-> out])
             /\ defaultProvider' =
                  IF out.kind = "pending" THEN Obj("AnchorProvider")
                  ELSE defaultProvider
       IN  Entered(createTokenSync(o))
  /\ UNCHANGED <<pc, api, config, payer, core, options, validation, locals,
                 idl, supplyBN, derivations, sent, calls, coreResult, result,
                 request, verdict, assembled, customLogger, logged, converted>>

\* The callback of loadIDL of one of the calls: the derivations are
\* started in the order written, and the call goes on to await them when
\* every function called exists; otherwise the TypeError goes to the
\* .catch, which resolves the call.
RaceOnIdl ==
  /\ \E i \in 1..Len(race) :
       /\ race[i].pc = "idl"
       /\ race' =
            [race EXCEPT
               ![i] = [options |-> race[i].options,
                       pc |-> IF NetworkFeeDeriverExported THEN "deriving" ELSE "done",
                       derivations |->
                         createTokenDerivations(race[i].options,
                                                CreateTokenLocals(race[i].options)),
                       submissions |-> race[i].submissions,
                       result |->
                         IF NetworkFeeDeriverExported THEN race[i].result
                         ELSE Failure(Err("pdaUtils.deriveNetworkFeeConfigPDA is not a function"))]]
  /\ UNCHANGED <<pc, api, config, payer, core, options, validation, locals,
                 idl, supplyBN, derivations, sent, calls, coreResult, result,
                 request, verdict, assembled, customLogger, logged,
                 defaultProvider, converted>>

SpecRace == Init /\ [][RaceCall \/ RaceOnIdl]_vars

\* ------------------------------------------------------------------------
\* Properties
\* ------------------------------------------------------------------------

\* C1: whenever validateTokenCreationParams reports a violation to
\* createToken, the promise createToken returns is rejected, the caller's
\* outcome is a failure, the error carries every message of the validator's
\* list in its order, and the call loads no descriptor, derives no address
\* and submits nothing.
C1_ValidationFailureCarriesAllErrors ==
  (core = "createToken" /\ validation.called /\ ~validation.threw
     /\ ~validation.isValid)
  => /\ validation.errors # <<>>
     /\ coreResult.kind = "rejected"
     /\ coreResult.error.msgs = validation.errors
     /\ result.kind \in {"rejected", "resolved"}
     /\ ~result.success
     /\ result.error.msgs = validation.errors
     /\ pc = "done"
     /\ calls.loads = 0
     /\ calls.fetches = 0
     /\ calls.submissions = 0
     /\ derivations = <<>>
     /\ sent = <<>>

\* a createToken call refused for two violations or more
C1_Witness ==
  /\ core = "createToken"
  /\ pc = "done"
  /\ validation.called
  /\ Len(validation.errors) >= 2
  /\ coreResult.kind = "rejected"

C3_SeedIsTheArgument ==
  (core = "createToken" /\ Len(derivations) >= 2)
  => derivations[2].seeds[4] = locals.uniqueKey.s

\* C4: revokeAuthority called with revokeMint = false and revokeFreeze =
\* false ends rejected without a descriptor load, an address derivation or
\* a submission; with connection, payer and mint given, the error is the
\* one saying that at least one authority must be specified.
C4_NoAuthorityRejectedLocally ==
  (core = "revokeAuthority" /\ options.revokeMint = Bool(FALSE)
     /\ options.revokeFreeze = Bool(FALSE))
  => /\ pc = "done"
     /\ coreResult.kind = "rejected"
     /\ ~result.success
     /\ calls.loads = 0
     /\ calls.fetches = 0
     /\ calls.submissions = 0
     /\ derivations = <<>>
     /\ sent = <<>>
     /\ (Truthy(options.connection) /\ Truthy(options.payer) /\ Truthy(options.mint))
          => coreResult.error = Err("At least one authority must be specified to revoke")

\* revokeAuthority refused for naming no authority, all else being given
C4_Witness ==
  /\ core = "revokeAuthority"
  /\ api = "revokeAuthority"
  /\ pc = "done"
  /\ options.revokeMint = Bool(FALSE)
  /\ options.revokeFreeze = Bool(FALSE)
  /\ Truthy(options.connection) /\ Truthy(options.payer) /\ Truthy(options.mint)
  /\ result = Rejected(Err("At least one authority must be specified to revoke"))

\* C5: a call of createToken or revokeAuthority that passed its local
\* checks (it called loadIDL) and has ended, ended with a resolved promise,
\* never a rejected one or an exception; when it did not succeed the value
\* has exactly the properties success (false), error and details.
C5_LateErrorsResolve ==
  (core # "" /\ calls.loads > 0 /\ pc = "done")
  => /\ coreResult.kind = "resolved"
     /\ result.kind = "resolved"
     /\ ~coreResult.success => coreResult.fields = {"success", "error", "details"}

\* a call that failed after its transaction was sent
C5_Witness ==
  /\ core = "revokeAuthority"
  /\ pc = "done"
  /\ calls.loads > 0
  /\ sent # <<>>
  /\ ~coreResult.success
  /\ coreResult.kind = "resolved"

\* C6 (as stated): every call that has ended, ended with a resolved promise
\* whose value has a success flag; no precondition failure shows as a
\* rejected promise or as an exception.
C6_EveryCallResolves ==
  pc = "done" => (result.kind = "resolved" /\ "success" \in result.fields)

\* C7: no call submits its transaction more than once or starts more than
\* one descriptor fetch; a call that ended after a submission or
\* confirmation error has submitted exactly once.
C7_AtMostOneSubmission ==
  /\ calls.submissions <= 1
  /\ Len(sent) = calls.submissions
  /\ calls.fetches <= 1
  /\ calls.loads <= 1
  /\ (pc = "done" /\ sent # <<>> /\ ~result.success) => calls.submissions = 1

\* a call whose descriptor was fetched and whose transaction failed
C7_Witness ==
  /\ pc = "done"
  /\ calls.fetches = 1
  /\ calls.submissions = 1
  /\ Len(sent) = 1
  /\ ~result.success
  /\ result.kind = "resolved"

\* C8 (as stated): for a createToken request whose decimals is an integer d
\* of 0..9, the decimals validated and the decimals constant that becomes
\* the argument of the instruction are both d.
C8_DecimalsKept ==
  (core = "createToken" /\ validation.called /\ options.decimals.t = "number"
     /\ ~options.decimals.f /\ options.decimals.n \in 0..MaxDecimals)
  => /\ validation.input.decimals = options.decimals
     /\ locals # NoLocals => locals.decimals = options.decimals

\* C9 (as stated): in a createTokenSimple call with an integer supply s and
\* decimals d of 0..9, the initialSupply createToken receives and converts
\* for the instruction is s followed by d zeros; a direct createToken call
\* given a supply other than 0 converts that very supply.
C9_SupplyInBaseUnits ==
  /\ (api = "createTokenSimple" /\ core = "createToken"
        /\ config.decimals.t = "number" /\ ~config.decimals.f
        /\ config.decimals.n \in 0..MaxDecimals /\ ~config.initialSupply.f)
     => /\ options.initialSupply.s =
             StripZeros(SupplyDigits(config.initialSupply) \o Zeros(config.decimals.n))
        /\ supplyBN # <<>> =>
             supplyBN = StripZeros(SupplyDigits(config.initialSupply)
                                     \o Zeros(config.decimals.n))
  /\ (api = "createToken" /\ supplyBN # <<>> /\ Truthy(options.initialSupply))
     => supplyBN = SupplyDigits(options.initialSupply)

\* C10 (as stated): for every request validateTokenCreationParams returns a
\* result whose errors hold, in the order name, symbol, decimals,
\* initialSupply, uri, partnerWallet, the message of each field that
\* violates its rule and nothing else (uri and partnerWallet are checked
\* when given), and whose isValid says that errors is empty.
C10_EveryViolationReported ==
  verdict # NoVerdict
  => LET one(v) == IF v.isValid THEN <<>> ELSE <<v.message>>
         expected ==
           one(validateTokenName(request.name))
           \o one(validateTokenSymbol(request.symbol))
           \o one(validateDecimals(request.decimals))
           \o one(validateInitialSupply(request.initialSupply))
           \o (IF Truthy(request.uri) THEN one(validateUri(request.uri)) ELSE <<>>)
           \o (IF Truthy(request.partnerWallet)
                    /\ ~validatePublicKey(request.partnerWallet).isValid
                 THEN <<"Partner wallet: "
                          \o validatePublicKey(request.partnerWallet).message>>
               ELSE <<>>)
     IN  /\ verdict.returned
         /\ verdict.errors = expected
         /\ verdict.isValid = (verdict.errors = <<>>)

\* C11 (as stated): a supply given as a digit string or as an integer number
\* is accepted exactly when its value v, taken exactly, satisfies
\* 1 <= v <= 2^64 - 1; so "18446744073709551615" is accepted and
\* "18446744073709551616" is rejected.
C11_SupplyComparedExactly ==
  (verdict.returned
     /\ \/ request.initialSupply.t = "string" /\ AllDigits(request.initialSupply.s)
        \/ request.initialSupply.t = "number" /\ ~request.initialSupply.f
             /\ request.initialSupply.s = <<>>)
  => LET accepted ==
           Range(verdict.errors) \cap
             {"Initial supply must contain only digits",
              "Initial supply must be a number or numeric string",
              "Initial supply must be greater than 0",
              "Initial supply must not exceed 18446744073709551615"} = {}
         inRange ==
           IF request.initialSupply.t = "number" THEN request.initialSupply.n >= 1
           ELSE /\ StripZeros(request.initialSupply.s) # <<"0">>
                /\ ~BigGreater(StripZeros(request.initialSupply.s),
                               <<"1","8","4","4","6","7","4","4","0","7",
                                 "3","7","0","9","5","5","1","6","1","5">>)
     IN  accepted <=> inRange

\* C12 (as stated): for a numeric initialSupply that is not a positive
\* integer (zero, negative, with a fractional part, NaN, Infinity)
\* validateTokenCreationParams returns a result with isValid = false and an
\* error message; it never raises.
C12_TotalOnNumbers ==
  (verdict # NoVerdict /\ request.initialSupply.t = "number"
     /\ (request.initialSupply.f \/ request.initialSupply.s # <<>>
           \/ request.initialSupply.n <= 0))
  => /\ verdict.returned
     /\ ~verdict.threw
     /\ ~verdict.isValid
     /\ verdict.errors # <<>>

C14_SymbolRuleAsStated ==
  (verdict.returned /\ request.symbol.t = "string")
  => LET s == request.symbol.s
         accepted ==
           Range(verdict.errors) \cap
             {"Token symbol is required and must be a string",
              "Token symbol must be 10 characters or less",
              "Token symbol must contain only uppercase letters and numbers"} = {}
     IN  /\ accepted <=> (s # <<>> /\ Len(s) <= 10
                            /\ Range(s) \subseteq UpperChars \cup DigitChars)
         /\ ~(Range(s) \subseteq UpperChars \cup DigitChars)
            => "Token symbol must contain only uppercase letters and numbers"
                 \in Range(verdict.errors)

\* C14 (amended): validateTokenSymbol accepts exactly the strings of 1 to 10
\* characters drawn from A-Z and 0-9; a symbol of at most 10 characters
\* that holds a lowercase letter or another character is rejected with the
\* error saying that only uppercase letters and numbers are allowed, and a
\* symbol of more than 10 characters is rejected with the error saying that
\* it must be 10 characters or less, whatever its characters.
C14_SymbolRule ==
  (verdict.returned /\ request.symbol.t = "string")
  => LET s == request.symbol.s
         accepted ==
           Range(verdict.errors) \cap
             {"Token symbol is required and must be a string",
              "Token symbol must be 10 characters or less",
              "Token symbol must contain only uppercase letters and numbers"} = {}
     IN  /\ accepted <=> (s # <<>> /\ Len(s) <= 10
                            /\ Range(s) \subseteq UpperChars \cup DigitChars)
         /\ (s # <<>> /\ Len(s) <= 10
               /\ ~(Range(s) \subseteq UpperChars \cup DigitChars))
            => "Token symbol must contain only uppercase letters and numbers"
                 \in Range(verdict.errors)
         /\ Len(s) > 10
            => /\ "Token symbol must be 10 characters or less" \in Range(verdict.errors)
               /\ "Token symbol must contain only uppercase letters and numbers"
                    \notin Range(verdict.errors)

\* a symbol of three characters, one of them lowercase, was rejected for
\* its characters
C14_Witness ==
  /\ verdict.returned
  /\ request.symbol = Str(<<"m","T","M">>)
  /\ verdict.errors = <<"Token symbol must contain only uppercase letters and numbers">>

\* C15 (as stated): validateTokenName accepts exactly the strings of 1 to
\* 32 characters whose every character is a letter, a digit, a space, an
\* underscore, a period or a hyphen; a name holding a tab or a newline is
\* rejected.
C15_NameCharset ==
  (verdict.returned /\ request.name.t = "string")
  => LET accepted ==
           Range(verdict.errors) \cap
             {"Token name is required and must be a string",
              "Token name must be 32 characters or less",
              "Token name contains invalid characters. Use only letters, numbers, spaces, hyphens, and periods"} = {}
     IN  accepted <=>
           /\ request.name.s # <<>>
           /\ Len(request.name.s) <= 32
           /\ Range(request.name.s) \subseteq
                UpperChars \cup LowerChars \cup DigitChars \cup {" ", "_", ".", "-"}

\* C16: two deriveMintPDA calls given the same programId, payer, name and
\* uniqueKey find the same address, whatever symbol each was given and
\* whichever call was made first.
C16_MintAddressDeterministic ==
  \A i, j \in 1..Len(derivations) :
    (Len(request) = 2
       /\ request[i].programId = request[j].programId
       /\ request[i].payer = request[j].payer
       /\ request[i].name = request[j].name
       /\ request[i].uniqueKey = request[j].uniqueKey)
    => Address(derivations[i]) = Address(derivations[j])

\* two calls that differ in the symbol alone have found one address
C16_Witness ==
  /\ Len(derivations) = 2
  /\ Len(request) = 2
  /\ request[1].symbol # request[2].symbol
  /\ request[1].programId = request[2].programId
  /\ request[1].payer = request[2].payer
  /\ request[1].name = request[2].name
  /\ request[1].uniqueKey = request[2].uniqueKey
  /\ Address(derivations[1]) = Address(derivations[2])

\* C17: two deriveMintPDA calls given the same programId, payer and name
\* and two distinct uniqueKey strings find distinct addresses.
C17_DistinctKeysDistinctMints ==
  \A i, j \in 1..Len(derivations) :
    (Len(request) = 2
       /\ request[i].programId = request[j].programId
       /\ request[i].payer = request[j].payer
       /\ request[i].name = request[j].name
       /\ request[i].uniqueKey.t = "string"
       /\ request[j].uniqueKey.t = "string"
       /\ request[i].uniqueKey # request[j].uniqueKey)
    => Address(derivations[i]) # Address(derivations[j])

\* two calls that differ in the uniqueKey alone, the empty string and "B",
\* have found two addresses
C17_Witness ==
  /\ Len(derivations) = 2
  /\ Len(request) = 2
  /\ request[1].programId = request[2].programId
  /\ request[1].payer = request[2].payer
  /\ request[1].name = request[2].name
  /\ request[1].symbol = request[2].symbol
  /\ request[1].uniqueKey = Str(<<>>)
  /\ request[2].uniqueKey = Str(<<"B">>)
  /\ Address(derivations[1]) # Address(derivations[2])

\* C18 (as stated): a revokeAuthority transaction is submitted only after
\* the payer's balance was queried and compared with the estimated
\* requirement of 5,000 + 2,000,000 lamports, by revokeAuthoritySimple and
\* by revokeAuthority called directly alike; a call that ended for an
\* insufficient balance has submitted nothing.
C18_BalanceComparedBeforeRevoke ==
  /\ (core = "revokeAuthority" /\ sent # <<>>) => calls.balances > 0
  /\ (pc = "done" /\ result = Failure(Err("Insufficient balance")))
     => (sent = <<>> /\ calls.submissions = 0)

\* C19 (as stated): the call revokeAuthority builds has the accounts of the
\* revokeAuthority entry of the embedded descriptor, name for name (owner,
\* mint, tokenProgram, systemProgram, tokenPda holding the "payment_fixed"
\* address, payer, config holding the "revoke_fee_config" address), and as
\* many arguments as that entry declares, in its order: revokeMint,
\* revokeFreeze.
C19_RevokeCallMatchesEmbeddedDescriptor ==
  (core = "revokeAuthority" /\ Len(derivations) = 3)
  => LET declared == InstructionOf(EmbeddedIDL, "revokeAuthority")
     IN  /\ BuiltInstruction.name = "revokeAuthority"
         /\ BuiltInstruction.args[1] = locals.revokeMint
         /\ BuiltInstruction.args[2] = locals.revokeFreeze
         /\ BuiltInstruction.accounts[5] =
              Account("tokenPda", Address(Derivation("findProgramAddress", <<PAYMENT_SEED>>, locals.programId)))
         /\ BuiltInstruction.accounts[Len(BuiltInstruction.accounts)] =
              Account("config", Address(Derivation("findProgramAddress", <<REVOKE_FEE_SEED>>, locals.programId)))
         /\ Len(BuiltInstruction.args) = Len(declared.args)
         /\ AccountNames(BuiltInstruction) = declared.accounts

\* C20 (as stated): loadIDL given an object returns that object and starts
\* no fetch; given a path or an address it returns the parsed content of
\* the file of that name when the file exists, and starts a fetch only
\* when it does not; given nothing it returns the parsed content of the
\* default file when that file exists and the embedded descriptor
\* otherwise, and never starts a fetch.
C20_SourceResolutionOrder ==
  idl # IdlNone
  => /\ request.source.t = "object"
        => (idl = IdlFulfilled("deployed") /\ calls.fetches = 0)
     /\ (request.source.t = "string" /\ request.source.s # <<>>)
        => IF request.env.exists
             THEN idl = IdlFulfilled(request.env.content) /\ calls.fetches = 0
           ELSE /\ idl.state # "fulfilled"
                /\ calls.fetches = (IF request.env.fetchDefined THEN 1 ELSE 0)
     /\ ~Truthy(request.source)
        => /\ calls.fetches = 0
           /\ idl = IdlFulfilled(IF request.env.exists THEN request.env.content
                                  ELSE "embedded")

\* C21 (as stated): when the descriptor file loadIDL looks for exists and
\* does not parse, loadIDL fails: the promise it returns is rejected, no
\* fetch is started and neither the embedded descriptor nor any other
\* descriptor is yielded.
C21_ParseErrorPropagates ==
  (/\ idl # IdlNone
   /\ request.source.t \in {"undefined", "string"}
   /\ request.env.exists
   /\ ~request.env.parses)
  => (idl = IdlRejected /\ calls.fetches = 0)

\* C22 (as stated): the messages of an operation called with no logger of
\* its own go to the function the library's setCustomLogger was last given,
\* and to console.log when it was given none or was never called; this
\* holds for createToken and createTokenSimple as it does for
\* revokeAuthority and revokeAuthoritySimple.
C22_LibraryLoggerReceivesAll ==
  [][(logged' # logged /\ logged'.logger = Undef)
     => logged'.sink = customLogger.authority]_vars

\* C23 (as stated): solToLamports(lamportsToSol(x)) is x for every integer
\* x from 0 up to 2^53 - 1.
C23_LamportsRoundTrip ==
  converted # Undef
  => (IF converted.lamports.s = <<>> THEN NatToDigits(converted.lamports.n)
      ELSE converted.lamports.s)
     = (IF request.s = <<>> THEN NatToDigits(request.n) ELSE request.s)

\* C24 (as stated): a createToken call whose request passed validation and
\* whose descriptor loaded derives all five addresses, the last of them
\* from the seed "network_fee_config", and submits its transaction; when
\* the transaction is confirmed the call resolves with success = true and
\* the mint, tokenAccount and metadata addresses.
C24_ReachesSubmitting ==
  (/\ core = "createToken"
   /\ idl.state = "fulfilled"
   /\ coreResult.kind = "resolved")
  => /\ Len(derivations) = 5
     /\ NetworkFeeDerivation(locals.programId) \in Range(derivations)
     /\ calls.submissions = 1
     /\ coreResult.success
        => {"mint", "tokenAccount", "metadata"} \subseteq coreResult.fields

\* C25 (as stated): a createTokenSimple call whose token parameters break
\* a validation rule has sent no balance query, and no other request, when
\* the validation failure is reported.
C25_SimpleValidatesBeforeNetwork ==
  (/\ api = "createTokenSimple"
   /\ validation.called
   /\ ~validation.isValid)
  => (calls.balances = 0 /\ calls.loads = 0 /\ calls.submissions = 0)

\* C26 (as stated): a revokeAuthoritySimple call with a mint, a wallet,
\* revokeMint = false and revokeFreeze = false sends no balance query and
\* ends with the error that no authority was specified, whatever the
\* balance of the payer.
C26_SimpleNoAuthorityBeforeNetwork ==
  (/\ api = "revokeAuthoritySimple"
   /\ config.revokeMint = Bool(FALSE)
   /\ config.revokeFreeze = Bool(FALSE)
   /\ payer # Undef)
  => /\ calls.balances = 0
     /\ pc = "done"
        => (/\ ~result.success
            /\ result.error = Err("At least one authority must be specified to revoke"))

\* C27 (as stated): createToken called with initialSupply 0 validates the
\* supply 0, fails with the error that the supply must be greater than 0
\* and submits nothing.
C27_ZeroSupplyRejected ==
  (/\ core = "createToken"
   /\ options.initialSupply = Num(0)
   /\ validation.called)
  => /\ validation.input.initialSupply = Num(0)
     /\ ~validation.isValid
     /\ "Initial supply must be greater than 0" \in Range(validation.errors)
     /\ sent = <<>>

\* C29 (as stated): when a createToken or revokeAuthority call has
\* returned and settled, the default provider of the framework is the one
\* it was before the call.
C29_NoGlobalLeftBehind ==
  pc = "done" => defaultProvider = Undef

====
